---- MODULE Spec2Model ----
(***************************************************************************)
(* LocalSend WebRTC transfer core (core/src/webrtc/webrtc.rs) and its host *)
(* controllers (app/rust/src/api/webrtc.rs).                               *)
(*                                                                         *)
(* Byte strings are sequences of runs <<src, lo, n>>: the n bytes at       *)
(* offsets lo .. lo+n-1 of the source src (a file id, or a serialized      *)
(* message).  Adjacent runs of one source are kept merged, so two byte     *)
(* strings are equal exactly when they hold the same bytes in the same     *)
(* order.                                                                  *)
(***************************************************************************)
EXTENDS Integers, Sequences, FiniteSets, TLC

\* const CHUNK_SIZE: usize = 16 * 1024
CHUNK_SIZE == 16 * 1024

\* Largest number of buffers the producer of one byte stream hands over.
MaxBufs == 3

(***************************************************************************)
(* Bytes / BytesMut                                                        *)
(***************************************************************************)
RECURSIVE BLen(_)
\* Bytes::len
BLen(b) == IF b = <<>> THEN 0 ELSE Head(b)[3] + BLen(Tail(b))

\* One run of n bytes of src starting at offset lo; no bytes when n = 0.
Run(src, lo, n) == IF n = 0 THEN <<>> ELSE << <<src, lo, n>> >>

\* BytesMut::extend_from_slice
ExtendFromSlice(b, d) ==
    IF d = <<>> THEN b
    ELSE IF b = <<>> THEN d
    ELSE LET l == b[Len(b)]
             h == Head(d)
         IN  IF l[1] = h[1] /\ l[2] + l[3] = h[2]
             THEN SubSeq(b, 1, Len(b) - 1) \o << <<l[1], l[2], l[3] + h[3]>> >> \o Tail(d)
             ELSE b \o d

RECURSIVE BTake(_, _)
\* The first k bytes of b (k <= BLen(b)): what BytesMut::split_to(k) returns.
BTake(b, k) ==
    IF k = 0 \/ b = <<>> THEN <<>>
    ELSE LET h == Head(b)
         IN  IF h[3] <= k THEN <<h>> \o BTake(Tail(b), k - h[3])
             ELSE << <<h[1], h[2], k>> >>

RECURSIVE BDrop(_, _)
\* b without its first k bytes: what BytesMut::split_to(k) leaves in the buffer.
BDrop(b, k) ==
    IF k = 0 \/ b = <<>> THEN b
    ELSE LET h == Head(b)
         IN  IF h[3] <= k THEN BDrop(Tail(b), k - h[3])
             ELSE << <<h[1], h[2] + k, h[3] - k>> >> \o Tail(b)

RECURSIVE BConcat(_)
\* The concatenation of a sequence of byte strings.
BConcat(bs) == IF bs = <<>> THEN <<>> ELSE ExtendFromSlice(Head(bs), BConcat(Tail(bs)))

(***************************************************************************)
(* process_in_chunks.  Its state is [pc, buffer]:                          *)
(*   "recv"  at rx.recv().await                                            *)
(*   "split" at the test of the inner while loop                           *)
(*   "tail"  after the input is exhausted                                  *)
(*   "ok" / "err" returned Ok(()) / Err(e)                                 *)
(***************************************************************************)
\* let mut buffer = BytesMut::with_capacity(CHUNK_SIZE);
ChunkerStart == [pc |-> "recv", buffer |-> <<>>]

\* rx.recv() yields Some(data): buffer.extend_from_slice(&data)
ChunkerRecv(st, data) == [pc |-> "split", buffer |-> ExtendFromSlice(st.buffer, data)]

\* rx.recv() yields None: leave the outer loop
ChunkerClosed(st) == [st EXCEPT !.pc = "tail"]

\* while buffer.len() >= CHUNK_SIZE
ChunkerMustSplit(st) == BLen(st.buffer) >= CHUNK_SIZE

\* Mutant: the callback is handed the whole buffer instead of its first CHUNK_SIZE bytes.
ChunkerChunkWhole(st) == st.buffer

\* buffer.split_to(CHUNK_SIZE).freeze(): the chunk handed to the callback
ChunkerChunk(st) == BTake(st.buffer, CHUNK_SIZE)

\* Mutant: the callback's error is dropped and the loop goes on.
ChunkerAfterSplitGoOn(st, ok) ==
    [pc |-> "split", buffer |-> BDrop(st.buffer, CHUNK_SIZE)]

\* data_channel = callback(data_channel, chunk).await?
ChunkerAfterSplit(st, ok) ==
    [pc |-> IF ok THEN "split" ELSE "err", buffer |-> BDrop(st.buffer, CHUNK_SIZE)]

\* The inner loop's condition is false: back to rx.recv()
ChunkerNoSplit(st) == [st EXCEPT !.pc = "recv"]

\* Mutant: the leftover is flushed without the emptiness test.
ChunkerMustFlushAlways(st) == TRUE

\* if !buffer.is_empty()
ChunkerMustFlush(st) == st.buffer # <<>>

\* callback(data_channel, buffer.freeze()).await?; Ok(())
ChunkerAfterFlush(st, ok) == [pc |-> IF ok THEN "ok" ELSE "err", buffer |-> <<>>]

\* Nothing is left over: Ok(())
ChunkerNoFlush(st) == [st EXCEPT !.pc = "ok"]

(***************************************************************************)
(* Data-channel frames (DataChannelMessage).  A text frame (is_string) is  *)
(* the empty string ("end"), a serialized RTCSendFileHeaderMessage ("hdr") *)
(* or text that is no such JSON ("junk"); a binary frame carries bytes.    *)
(***************************************************************************)
BinFrame(b) == [kind |-> "bin", bytes |-> b, id |-> "", token |-> ""]

\* data_channel.send_text("".to_string())
EndFrame == [kind |-> "end", bytes |-> <<>>, id |-> "", token |-> ""]

\* serde_json::to_string(&RTCSendFileHeaderMessage { id, token })
HdrFrame(i, t) == [kind |-> "hdr", bytes |-> <<>>, id |-> i, token |-> t]

\* A text frame that is neither empty nor a serialized header
JunkFrame == [kind |-> "junk", bytes |-> <<>>, id |-> "", token |-> ""]

\* msg.is_string
IsString(f) == f.kind # "bin"

(***************************************************************************)
(* The offer.  A FileDto is [id, size, json]: json is the length of its    *)
(* JSON text (name, type, preview and metadata make it as long as they     *)
(* like).                                                                  *)
(***************************************************************************)
SmallDto == 120

\* The JSON length of a descriptor with a preview of more than one chunk
LargeDto == CHUNK_SIZE + 120

\* One small file, or the same and a second file whose preview makes the manifest
\* longer than one chunk
Offers ==
    { << [id |-> "A", size |-> 5, json |-> SmallDto] >>,
      << [id |-> "A", size |-> 5, json |-> SmallDto],
         [id |-> "B", size |-> CHUNK_SIZE + 1, json |-> LargeDto] >> }

RECURSIVE SumJson(_)
SumJson(fs) == IF fs = <<>> THEN 0 ELSE Head(fs).json + 1 + SumJson(Tail(fs))

\* The length of serde_json::to_string(&RTCInitialMessage { files }):
\* {"files":[ d1 , d2 ]}
ManifestJsonLen(fs) == 12 + (IF fs = <<>> THEN 0 ELSE SumJson(fs) - 1)

\* serde_json::to_string(&RTCInitialMessage { files }) as bytes
ManifestBytes(fs) == Run("manifest", 0, ManifestJsonLen(fs))

\* The length of serde_json::to_string(&RTCInitialResponse { files }):
\* {"files":{ "A":"<uuid>" , ... }}, ids of one character and tokens of 36
ReplyJsonLen(toks) ==
    LET n == Cardinality(DOMAIN toks) IN 12 + (IF n = 0 THEN 0 ELSE 43 * n - 1)

\* serde_json::to_string(&initial_response) as bytes
ReplyBytes(toks) == Run("reply", 0, ReplyJsonLen(toks))

\* The ids of a list of FileDto
IdsOf(fs) == {fs[i].id : i \in 1..Len(fs)}

\* initial_msg.files.iter().find(|f| f.id == header.id)
FindFile(fs, i) == IF i \in IdsOf(fs)
                   THEN fs[CHOOSE k \in 1..Len(fs) : fs[k].id = i /\ \A j \in 1..(k - 1) : fs[j].id # i]
                   ELSE [id |-> "", size |-> 0, json |-> 0]

\* The ids the receiving host may select and the sending host may submit
HostIds == {"A", "B"}

\* Uuid::new_v4() values
Tokens == {"t1", "t2"}

\* Uuid::new_v4().to_string(): the fresh token drawn for file id i
NewToken(i) == IF i = "A" THEN "t1" ELSE "t2"

\* selected_files.into_iter().map(|file_id| (file_id, Uuid::new_v4())): fresh
\* tokens, no two alike
TokenMaps(sel) == {m \in [sel -> Tokens] : \A a \in sel : m[a] = NewToken(a)}

\* HashMap::new()
EmptyMap == [x \in {} |-> ""]

(***************************************************************************)
(* Queue depths                                                            *)
(***************************************************************************)
\* mpsc::channel::<RTCStatus>(1)
StatusDepth == 1

\* mpsc::channel::<RTCFile>(1): the sender's submission queue, the receiver's
\* published-file queue
FileQueueDepth == 1

\* mpsc::channel::<Bytes>(1) of RTCSendController::send_file
SendStreamDepth == 1

\* mpsc::channel::<DataChannelMessage>(16)
ReceiveDepth == 16

\* mpsc::channel::<Bytes>(4)
FileStreamDepth == 4

\* The files the sending host submits in one session, at most
MaxSubmit == 2

\* The buffers the sending host writes into one file's stream, at most
MaxFileBufs == 1

\* The sizes of the buffers the sending host writes
FileBufSizes == {1, CHUNK_SIZE}

(***************************************************************************)
(* State                                                                   *)
(***************************************************************************)
VARIABLES
    \* process_in_chunks on its own
    ck_input,   \* the buffers the producer of the chunker's rx sends, in order
    ck_rx,      \* the buffers not yet received from rx
    ck_state,   \* process_in_chunks: [pc, buffer]
    ck_sink,    \* the chunks the callback was called with, in call order
    ck_fail,    \* the number of the callback's call that returned Err, 0 if none did
    \* encode_sdp and decode_sdp on their own
    sdp_s,      \* the SDP string, as its UTF-8 bytes
    sdp_state,  \* [pc, vec, text, res]: position, the byte vector in hand, the encoded text, the result
    \* the signaling server's REST controller
    request_count_map, \* state.request_count_map: per IP group, the requests counted
    tx_map,     \* state.tx_map: the (IP group, peer id) pairs that hold a PeerState
    peer_rx,    \* per peer, the WsServerMessages sent into its channel, in order
    requests,   \* per request: [pc, ws_type, ip_group, target, tx, res]
    \* the session
    files,      \* send_offer's files: Vec<FileDto>
    link,       \* the peer connection between the two: "none", "up", "failed"
    s2r,        \* frames in flight from the sender to the receiver
    r2s,        \* frames in flight from the receiver to the sender
    \* sender: send_offer
    s_main,     \* position of send_offer itself
    s_done,     \* done_rx: 1 once the state-change callback saw Failed
    s_closed,   \* peer_connection.close() was called
    s_open,     \* position of the on_open callback
    s_chunk,    \* its process_in_chunks: [pc, buffer]
    s_strq,     \* the rx of process_string_in_chunks: the strings not yet received
    s_cur,      \* message: the submission being sent (index in h_streams), 0 if none
    s_tokens,   \* file_tokens, once received
    s_err,      \* the RTCFileError being sent on error_tx
    s_tokens_tx,\* file_tokens_tx: Mutex<Option<oneshot::Sender>> holds Some
    s_tok_val,  \* the value sent on the file-tokens one-shot: <<>> or <<map>>
    s_init_buf, \* initial_msg_buffer: [some, buf]
    s_selected, \* what selected_files_tx carried to the host: <<>> or <<set>>
    s_sendq,    \* sending_rx: the queued RTCFile (indexes in h_streams)
    s_send_closed, \* the host dropped send_tx
    h_streams,  \* per submission: [id, q, closed, written, rx_dropped]
    s_status_n, \* statuses waiting in the sender's status queue
    s_status_log, \* every status put on the sender's status queue
    s_status_open, \* the host was seen to still hold status_rx
    s_err_log,  \* every RTCFileError put on the sender's error queue
    s_sent,     \* every frame the sender put on the data channel
    s_dc_closed,\* data_channel.close() was called
    \* receiver: accept_offer
    r_main,     \* position of accept_offer itself
    r_done,     \* done_rx: 1 once the state-change callback saw Failed
    r_closed,   \* peer_connection.close() was called
    r_dc,       \* data_channel_rx: 1 while the opened channel waits in it
    r_task,     \* position of the spawned receive task
    r_q,        \* receive_rx: frames queued by on_message
    r_onmsg,    \* on_message is installed
    r_init_buf, \* initial_msg_buffer
    r_files,    \* initial_msg.files once parsed: <<>> or <<files>>
    r_files_pub,\* files_tx carried the list to the host
    r_sel,      \* the selection one-shot: [st, set], st "pending", "dropped" or "some"
    r_tokens,   \* initial_response.files
    r_chunk,    \* process_string_in_chunks of the reply: [pc, buffer]
    r_strq,     \* its rx
    r_state,    \* file_state: 0 (None) or the index in r_streams of its binary_tx
    r_msg,      \* the frame taken from receive_rx and not yet dealt with
    r_err,      \* the RTCFileError being sent on error_tx
    r_streams,  \* per published RTCFile: [id, size, q, open, taken, pub]
    r_recvq,    \* receiving_tx: RTCFile queued for the host (indexes in r_streams)
    r_status_n, r_status_log, r_status_open,
    r_err_log,
    r_sent,     \* every frame the receiver put on the data channel
    \* the host controllers (RTCSendController, RTCReceiveController, RTCFileReceiver)
    api_slot,   \* per take-once resource: its Mutex<Option<..>> holds Some
    api_chan,   \* per resource, its channel: [q, closed, log]
    api_call    \* per call of a controller method: [pc, err, got]

sdpVars == <<sdp_s, sdp_state>>

srvVars == <<request_count_map, tx_map, peer_rx, requests>>

ckVars == <<ck_input, ck_rx, ck_state, ck_sink, ck_fail, sdpVars, srvVars>>

apiVars == <<api_slot, api_chan, api_call>>

linkVars == <<link, s2r, r2s>>

sMainVars == <<s_main, s_done, s_closed>>

sOpenVars == <<s_open, s_chunk, s_strq, s_cur, s_tokens, s_err, s_selected, s_sent, s_dc_closed>>

sMsgVars == <<s_tokens_tx, s_tok_val, s_init_buf>>

sHostVars == <<s_sendq, s_send_closed, h_streams>>

sStatusVars == <<s_status_n, s_status_log, s_status_open>>

sErrVars == <<s_err_log>>

rMainVars == <<r_main, r_done, r_closed>>

rTaskVars == <<r_dc, r_task, r_onmsg, r_init_buf, r_files, r_files_pub, r_tokens, r_chunk,
               r_strq, r_state, r_msg, r_err, r_sent>>

rHostVars == <<r_sel, r_streams, r_recvq>>

rStatusVars == <<r_status_n, r_status_log, r_status_open>>

rErrVars == <<r_err_log>>

senderVars == <<sMainVars, sOpenVars, sMsgVars, sHostVars, sStatusVars, sErrVars>>

receiverVars == <<rMainVars, rTaskVars, r_q, rHostVars, rStatusVars, rErrVars>>

sessVars == <<apiVars, files, linkVars, senderVars, receiverVars>>

vars == <<ckVars, sessVars>>

\* No RTCFileError
NoErr == [file_id |-> "", error |-> ""]

\* No frame
NoMsg == [kind |-> "none", bytes |-> <<>>, id |-> "", token |-> ""]

(***************************************************************************)
(* The take-once resources of the host controllers: the receiving half of  *)
(* the files one-shot (listen_files), of the selected-files one-shot       *)
(* (listen_selected_files) and of a file's byte stream (RTCFileReceiver::  *)
(* receive), and the sending half of the selection one-shot                *)
(* (send_selection, decline).  Each sits in an Arc<Mutex<Option<..>>>.     *)
(***************************************************************************)
Resources == {"files", "selected", "receive", "select"}

\* The calls the host makes of the method, or the two methods, of one resource
MaxCalls == 2

\* The chunks the receive loop publishes on one file's byte stream, at most
MaxApiChunks == 2

ApiCalls == Resources \X (1..MaxCalls)

\* A channel nothing was sent on, both halves alive
NoChan == [q |-> <<>>, closed |-> FALSE, log |-> <<>>]

\* A method not yet called
NoCall == [pc |-> "idle", err |-> "", got |-> <<>>]

\* The controllers as accept_offer and send_offer build them: every Option is Some
ApiIdle ==
    /\ api_slot = [r \in Resources |-> TRUE]
    /\ api_chan = [r \in Resources |-> NoChan]
    /\ api_call = [c \in ApiCalls |-> NoCall]

\* encode_sdp is not called
SdpIdle ==
    /\ sdp_s = <<>>
    /\ sdp_state = [pc |-> "idle", vec |-> <<>>, text |-> <<>>, res |-> <<>>]

\* The IP groups of the clients (util::ip::get_ip_group)
IpGroups == {"ga", "gb"}

\* The peer ids (Uuid)
PeerIds == {"p", "q"}

\* The peers a controller may find registered
Peers == IpGroups \X PeerIds

\* The requests the clients make, at most
MaxRequests == 3

\* A request that has not arrived
NoRequest == [pc |-> "idle", ws_type |-> "", ip_group |-> "", target |-> "", tx |-> <<>>, res |-> ""]

\* The server with no peer registered and before any request
ServerIdle ==
    /\ request_count_map = [g \in IpGroups |-> 0]
    /\ tx_map = {}
    /\ peer_rx = [p \in Peers |-> <<>>]
    /\ requests = [n \in 1..MaxRequests |-> NoRequest]

\* No peer connection is established and no frame is in flight
LinkInit ==
    /\ link = "none"
    /\ s2r = <<>>
    /\ r2s = <<>>

\* The sender's callbacks, queues and host before the session
SenderIdle ==
    /\ s_done = 0
    /\ s_closed = FALSE
    /\ s_open = "idle"
    /\ s_chunk = ChunkerStart
    /\ s_strq = <<>>
    /\ s_cur = 0
    /\ s_tokens = EmptyMap
    /\ s_err = NoErr
    /\ s_tokens_tx = TRUE
    /\ s_tok_val = <<>>
    /\ s_init_buf = [some |-> TRUE, buf |-> <<>>]
    /\ s_selected = <<>>
    /\ s_sendq = <<>>
    /\ s_send_closed = FALSE
    /\ h_streams = <<>>
    /\ s_status_n = 0
    /\ s_status_log = <<>>
    /\ s_status_open = TRUE
    /\ s_err_log = <<>>
    /\ s_sent = <<>>
    /\ s_dc_closed = FALSE

\* The receiver before the host calls accept_offer
ReceiverInit ==
    /\ r_main = "wait_offer"
    /\ r_done = 0
    /\ r_closed = FALSE
    /\ r_dc = 0
    /\ r_task = "wait_dc"
    /\ r_q = <<>>
    /\ r_onmsg = FALSE
    /\ r_init_buf = <<>>
    /\ r_files = <<>>
    /\ r_files_pub = FALSE
    /\ r_sel = [st |-> "pending", set |-> {}]
    /\ r_tokens = EmptyMap
    /\ r_chunk = ChunkerStart
    /\ r_strq = <<>>
    /\ r_state = 0
    /\ r_msg = NoMsg
    /\ r_err = NoErr
    /\ r_streams = <<>>
    /\ r_recvq = <<>>
    /\ r_status_n = 0
    /\ r_status_log = <<>>
    /\ r_status_open = TRUE
    /\ r_err_log = <<>>
    /\ r_sent = <<>>

\* The state when the sending host calls send_offer
SessionInit ==
    /\ files \in Offers
    /\ ApiIdle
    /\ LinkInit
    /\ s_main = "offer"
    /\ SenderIdle
    /\ ReceiverInit
(***************************************************************************)
(* process_in_chunks on its own: any split of the bytes 0 .. N-1 of one    *)
(* source into at most MaxBufs buffers, and a callback that may fail.      *)
(***************************************************************************)
\* Buffer sizes around the chunk boundary (tests::test_process_in_chunks sends
\* CHUNK_SIZE * 2 + 5 bytes in one buffer).
BufSizes == {0, 1, 5, CHUNK_SIZE - 1, CHUNK_SIZE, CHUNK_SIZE + 1, CHUNK_SIZE * 2 + 5}

RECURSIVE Split(_, _, _)
\* The buffers of the given sizes, cut in order from the bytes of src from offset lo.
Split(src, lo, sizes) ==
    IF sizes = <<>> THEN <<>>
    ELSE <<Run(src, lo, Head(sizes))>> \o Split(src, lo + Head(sizes), Tail(sizes))

SizeSeqs == UNION {[1..n -> BufSizes] : n \in 0..MaxBufs}

ChunkerInit ==
    /\ files = <<>>
    /\ ApiIdle
    /\ LinkInit
    /\ s_main = "offer"
    /\ SenderIdle
    /\ ReceiverInit
    /\ SdpIdle
    /\ ServerIdle
    /\ ck_input \in {Split("in", 0, s) : s \in SizeSeqs}
    /\ ck_rx = ck_input
    /\ ck_state = ChunkerStart
    /\ ck_sink = <<>>
    /\ ck_fail = 0

\* while let Some(data) = rx.recv().await
CkRecv ==
    /\ ck_state.pc = "recv"
    /\ ck_rx # <<>>
    /\ ck_state' = ChunkerRecv(ck_state, Head(ck_rx))
    /\ ck_rx' = Tail(ck_rx)
    /\ UNCHANGED <<ck_input, ck_sink, ck_fail, sdpVars, srvVars, sessVars>>

\* rx.recv() returns None once the producer dropped tx and the queue is empty
CkClosed ==
    /\ ck_state.pc = "recv"
    /\ ck_rx = <<>>
    /\ ck_state' = ChunkerClosed(ck_state)
    /\ UNCHANGED <<ck_input, ck_rx, ck_sink, ck_fail, sdpVars, srvVars, sessVars>>

\* One iteration of the inner loop; the callback returns Ok or Err
CkSplit ==
    /\ ck_state.pc = "split"
    /\ ChunkerMustSplit(ck_state)
    /\ \E ok \in BOOLEAN :
          /\ ck_sink' = Append(ck_sink, ChunkerChunk(ck_state))
          /\ ck_state' = ChunkerAfterSplit(ck_state, ok)
          /\ ck_fail' = IF ok THEN ck_fail ELSE Len(ck_sink) + 1
    /\ UNCHANGED <<ck_input, ck_rx, sdpVars, srvVars, sessVars>>

CkNoSplit ==
    /\ ck_state.pc = "split"
    /\ ~ChunkerMustSplit(ck_state)
    /\ ck_state' = ChunkerNoSplit(ck_state)
    /\ UNCHANGED <<ck_input, ck_rx, ck_sink, ck_fail, sdpVars, srvVars, sessVars>>

\* The leftover after the loop; the callback returns Ok or Err
CkFlush ==
    /\ ck_state.pc = "tail"
    /\ ChunkerMustFlush(ck_state)
    /\ \E ok \in BOOLEAN :
          /\ ck_sink' = Append(ck_sink, ck_state.buffer)
          /\ ck_state' = ChunkerAfterFlush(ck_state, ok)
          /\ ck_fail' = IF ok THEN ck_fail ELSE Len(ck_sink) + 1
    /\ UNCHANGED <<ck_input, ck_rx, sdpVars, srvVars, sessVars>>

CkNoFlush ==
    /\ ck_state.pc = "tail"
    /\ ~ChunkerMustFlush(ck_state)
    /\ ck_state' = ChunkerNoFlush(ck_state)
    /\ UNCHANGED <<ck_input, ck_rx, ck_sink, ck_fail, sdpVars, srvVars, sessVars>>

ChunkerNext == CkRecv \/ CkClosed \/ CkSplit \/ CkNoSplit \/ CkFlush \/ CkNoFlush

SpecChunker == ChunkerInit /\ [][ChunkerNext]_vars

(***************************************************************************)
(* Claims about process_in_chunks                                          *)
(***************************************************************************)
\* The number of input bytes
CkN == BLen(BConcat(ck_input))

\* ceil(n / CHUNK_SIZE)
CeilChunks(n) == (n + CHUNK_SIZE - 1) \div CHUNK_SIZE

\* C2: once process_in_chunks has returned Ok, the callback was called exactly
\* ceil(N / CHUNK_SIZE) times, every call but the last with exactly CHUNK_SIZE
\* bytes and the last with 1 .. CHUNK_SIZE bytes; and at no moment has an empty
\* chunk or one longer than CHUNK_SIZE been passed.
C2_ChunkCount ==
    /\ \A i \in 1..Len(ck_sink) : BLen(ck_sink[i]) \in 1..CHUNK_SIZE
    /\ ck_state.pc = "ok" =>
          /\ Len(ck_sink) = CeilChunks(CkN)
          /\ \A i \in 1..(Len(ck_sink) - 1) : BLen(ck_sink[i]) = CHUNK_SIZE

\* C2 witness: a run over several buffers, one of them empty, whose bytes are an
\* exact multiple of CHUNK_SIZE has returned Ok.
C2_Witness ==
    /\ ck_state.pc = "ok"
    /\ Len(ck_input) >= 2
    /\ \E i \in 1..Len(ck_input) : ck_input[i] = <<>>
    /\ CkN > 0
    /\ CkN % CHUNK_SIZE = 0

\* C3: once process_in_chunks has returned Ok, the chunks concatenated in call
\* order are the input buffers concatenated, and chunk i is the bytes
\* (i-1)*CHUNK_SIZE .. min(i*CHUNK_SIZE, N) - 1 of the input whatever the split.
C3_ChunksAreInput ==
    ck_state.pc = "ok" =>
        /\ BConcat(ck_sink) = BConcat(ck_input)
        /\ \A i \in 1..Len(ck_sink) :
              ck_sink[i] = BTake(BDrop(Run("in", 0, CkN), (i - 1) * CHUNK_SIZE), CHUNK_SIZE)

\* C3 witness: an input whose buffers straddle a chunk boundary came out as more
\* than one chunk.
C3_Witness ==
    /\ ck_state.pc = "ok"
    /\ Len(ck_sink) >= 2
    /\ Len(ck_input) >= 2
    /\ \E i \in 1..Len(ck_input) : BLen(ck_input[i]) \notin {0, CHUNK_SIZE}


(***************************************************************************)
(* The peer connection                                                     *)
(***************************************************************************)
\* Frames travel and data_channel.send succeeds while the connection is
\* established and neither side has closed its peer connection.
LinkUp == link = "up" /\ ~s_closed /\ ~r_closed

\* The receiver has sent its answer over signaling
Answered == r_main \notin {"wait_offer", "sdp", "sdp_err", "returned_sdp_err"}

\* ICE and DTLS complete once both descriptions are set on both sides
LinkConnect ==
    /\ link = "none"
    /\ s_main = "wait_done"
    /\ Answered
    /\ ~s_closed /\ ~r_closed
    /\ link' = "up"
    /\ UNCHANGED <<ckVars, apiVars, files, s2r, r2s, senderVars, receiverVars>>

\* The connection breaks: RTCPeerConnectionState::Failed follows on both sides.
\* Frames in flight are lost.
LinkFail ==
    /\ link \in {"none", "up"}
    /\ s_main = "wait_done"
    /\ Answered
    /\ link' = "failed"
    /\ s2r' = <<>>
    /\ r2s' = <<>>
    /\ UNCHANGED <<ckVars, apiVars, files, senderVars, receiverVars>>

(***************************************************************************)
(* One step of process_in_chunks at its callback, which sends the chunk as *)
(* a binary frame: |data_channel, chunk| data_channel.send(&chunk).await?  *)
(* ok tells whether the send succeeds.  [st, sent]: the new state and the  *)
(* chunks sent.                                                            *)
(***************************************************************************)
ChunkerSendStep(st, ok) ==
    IF st.pc = "split"
    THEN IF ChunkerMustSplit(st)
         THEN [st |-> ChunkerAfterSplit(st, ok), sent |-> IF ok THEN <<ChunkerChunk(st)>> ELSE <<>>]
         ELSE [st |-> ChunkerNoSplit(st), sent |-> <<>>]
    ELSE IF ChunkerMustFlush(st)
         THEN [st |-> ChunkerAfterFlush(st, ok), sent |-> IF ok THEN <<st.buffer>> ELSE <<>>]
         ELSE [st |-> ChunkerNoFlush(st), sent |-> <<>>]

\* The binary frames of a sequence of chunks
BinFrames(chunks) == [i \in 1..Len(chunks) |-> BinFrame(chunks[i])]

\* String::from_utf8: bytes of source "raw" are no UTF-8 text
Utf8(b) == \A i \in 1..Len(b) : b[i][1] # "raw"

(***************************************************************************)
(* The sender's status queue.  The host may drop status_rx at any moment;  *)
(* the sender sees it only when it sends, so the drop is taken there.      *)
(***************************************************************************)
\* status_tx.send(st).await is Err: the host has dropped status_rx
SStatusDropped ==
    /\ s_status_open' = FALSE
    /\ s_status_n' = 0
    /\ UNCHANGED s_status_log

\* status_tx.send(st).await is Ok, once the queue has room
SStatusSent(st) ==
    /\ s_status_open
    /\ s_status_n < StatusDepth
    /\ s_status_n' = s_status_n + 1
    /\ s_status_log' = Append(s_status_log, st)
    /\ UNCHANGED s_status_open

\* status_tx.try_send(st) is Ok
STrySent(st) == SStatusSent(st)

\* status_tx.try_send(st) is Err: the queue is full or the host has dropped
\* status_rx
STryFailed ==
    \/ /\ s_status_open
       /\ s_status_n >= StatusDepth
       /\ UNCHANGED sStatusVars
    \/ SStatusDropped

(***************************************************************************)
(* Sender: send_offer                                                      *)
(***************************************************************************)
\* create_peer_connection .. signaling.send_offer(session_id, target_id, sdp)
SenderSendOffer ==
    /\ s_main = "offer"
    /\ s_main' = "wait_answer"
    /\ UNCHANGED <<ckVars, apiVars, files, linkVars, s_done, s_closed, sOpenVars, sMsgVars, sHostVars,
                   sStatusVars, sErrVars, receiverVars>>

\* let remote_desc = rx_answer.await?
SenderGotAnswer ==
    /\ s_main = "wait_answer"
    /\ Answered
    /\ s_main' = "status_sdp"
    /\ UNCHANGED <<ckVars, apiVars, files, linkVars, s_done, s_closed, sOpenVars, sMsgVars, sHostVars,
                   sStatusVars, sErrVars, receiverVars>>

\* status_tx.send(RTCStatus::SdpExchanged).await, peer_connection.close() and
\* Err when the host dropped status_rx
SenderStatusSdp ==
    /\ s_main = "status_sdp"
    /\ \/ /\ SStatusDropped
          /\ s_closed' = TRUE
          /\ s_main' = "returned_err"
       \/ /\ SStatusSent("SdpExchanged")
          /\ s_main' = "set_remote"
          /\ UNCHANGED s_closed
    /\ UNCHANGED <<ckVars, apiVars, files, linkVars, s_done, sOpenVars, sMsgVars, sHostVars,
                   sErrVars, receiverVars>>

\* peer_connection.set_remote_description(answer).await?
SenderSetRemote ==
    /\ s_main = "set_remote"
    /\ s_main' = "wait_done"
    /\ UNCHANGED <<ckVars, apiVars, files, linkVars, s_done, s_closed, sOpenVars, sMsgVars, sHostVars,
                   sStatusVars, sErrVars, receiverVars>>

\* on_peer_connection_state_change: s == Failed, done_tx.try_send(()).  The state
\* fails when the connection breaks or after the remote side closed.
SenderSeesFailed ==
    /\ s_main = "wait_done"
    /\ IF r_closed THEN TRUE ELSE link = "failed"
    /\ s_done = 0
    /\ s_done' = 1
    /\ UNCHANGED <<ckVars, apiVars, files, linkVars, s_main, s_closed, sOpenVars, sMsgVars, sHostVars,
                   sStatusVars, sErrVars, receiverVars>>

\* done_rx.recv().await; peer_connection.close().await?; Ok(())
SenderDone ==
    /\ s_main = "wait_done"
    /\ s_done = 1
    /\ s_done' = 0
    /\ s_closed' = TRUE
    /\ s_main' = "returned_ok"
    /\ UNCHANGED <<ckVars, apiVars, files, linkVars, sOpenVars, sMsgVars, sHostVars,
                   sStatusVars, sErrVars, receiverVars>>

(***************************************************************************)
(* Sender: the data channel's on_open callback                             *)
(***************************************************************************)
\* data_channel.send / send_text succeeds
SCanSend == LinkUp /\ ~s_dc_closed

\* Mutant: the serialized manifest is handed to the chunker twice.
ManifestQueueTwice(fs) == <<ManifestBytes(fs), ManifestBytes(fs)>>

\* process_string_in_chunks(data_channel, serde_json::to_string(&files)): the one
\* buffer its channel holds, tx.send(Bytes::from(string))
ManifestQueue(fs) == <<ManifestBytes(fs)>>

\* The data channel opens
SenderDcOpen ==
    /\ s_open = "idle"
    /\ LinkUp
    /\ s_open' = "connected"
    /\ UNCHANGED <<ckVars, apiVars, files, linkVars, sMainVars, s_chunk, s_strq, s_cur, s_tokens, s_err,
                   s_selected, s_sent, s_dc_closed, sMsgVars, sHostVars, sStatusVars, sErrVars,
                   receiverVars>>

\* if let Err(e) = status_tx.send(RTCStatus::Connected).await { try_send(Error); break 'send }
\* then process_string_in_chunks(.., initial_message, ..) starts
SenderConnected ==
    /\ s_open = "connected"
    /\ \/ /\ SStatusDropped
          /\ s_open' = "fin_text"
          /\ UNCHANGED <<s_strq, s_chunk>>
       \/ /\ SStatusSent("Connected")
          /\ s_strq' = ManifestQueue(files)
          /\ s_chunk' = ChunkerStart
          /\ s_open' = "manifest"
    /\ UNCHANGED <<ckVars, apiVars, files, linkVars, sMainVars, s_cur, s_tokens, s_err, s_selected,
                   s_sent, s_dc_closed, sMsgVars, sHostVars, sErrVars, receiverVars>>

\* process_string_in_chunks: rx.recv() yields the string, then None
SenderStringRecv ==
    /\ s_open = "manifest"
    /\ s_chunk.pc = "recv"
    /\ IF s_strq # <<>>
       THEN /\ s_chunk' = ChunkerRecv(s_chunk, Head(s_strq))
            /\ s_strq' = Tail(s_strq)
       ELSE /\ s_chunk' = ChunkerClosed(s_chunk)
            /\ UNCHANGED s_strq
    /\ UNCHANGED <<ckVars, apiVars, files, linkVars, sMainVars, s_open, s_cur, s_tokens, s_err,
                   s_selected, s_sent, s_dc_closed, sMsgVars, sHostVars, sStatusVars, sErrVars,
                   receiverVars>>

\* process_in_chunks of a file body: message.binary_rx.recv() yields the next
\* buffer of the host, or None once the host dropped the RTCFileSender
SenderBodyRecv ==
    /\ s_open = "body"
    /\ s_chunk.pc = "recv"
    /\ LET st == h_streams[s_cur]
       IN  IF st.q # <<>>
           THEN /\ s_chunk' = ChunkerRecv(s_chunk, Head(st.q))
                /\ h_streams' = [h_streams EXCEPT ![s_cur].q = Tail(st.q)]
           ELSE /\ st.closed
                /\ s_chunk' = ChunkerClosed(s_chunk)
                /\ UNCHANGED h_streams
    /\ UNCHANGED <<ckVars, apiVars, files, linkVars, sMainVars, s_open, s_strq, s_cur, s_tokens, s_err,
                   s_selected, s_sent, s_dc_closed, sMsgVars, s_sendq, s_send_closed,
                   sStatusVars, sErrVars, receiverVars>>

\* The inner loop and the leftover of process_in_chunks, each chunk sent with
\* data_channel.send(&chunk)
SenderChunkSend ==
    /\ s_open \in {"manifest", "body"}
    /\ s_chunk.pc \in {"split", "tail"}
    /\ LET r == ChunkerSendStep(s_chunk, SCanSend)
       IN  /\ s_chunk' = r.st
           /\ s2r' = s2r \o BinFrames(r.sent)
           /\ s_sent' = s_sent \o BinFrames(r.sent)
    /\ UNCHANGED <<ckVars, apiVars, files, link, r2s, sMainVars, s_open, s_strq, s_cur, s_tokens, s_err,
                   s_selected, s_dc_closed, sMsgVars, sHostVars, sStatusVars, sErrVars,
                   receiverVars>>

\* The initial message is out, or sending it failed:
\* try_send(Error("Failed to send initial message")); break 'send
SenderManifestDone ==
    /\ s_open = "manifest"
    /\ s_chunk.pc \in {"ok", "err"}
    /\ IF s_chunk.pc = "ok"
       THEN /\ s_open' = "manifest_end"
            /\ UNCHANGED sStatusVars
       ELSE /\ s_open' = "fin_text"
            /\ STrySent("Error") \/ STryFailed
    /\ UNCHANGED <<ckVars, apiVars, files, linkVars, sMainVars, s_chunk, s_strq, s_cur, s_tokens, s_err,
                   s_selected, s_sent, s_dc_closed, sMsgVars, sHostVars, sErrVars,
                   receiverVars>>

\* Mark the end of the initial message: data_channel.send_text("")
SenderManifestEnd ==
    /\ s_open = "manifest_end"
    /\ IF SCanSend
       THEN /\ s2r' = Append(s2r, EndFrame)
            /\ s_sent' = Append(s_sent, EndFrame)
            /\ s_open' = "await_tokens"
            /\ UNCHANGED sStatusVars
       ELSE /\ s_open' = "fin_text"
            /\ STrySent("Error") \/ STryFailed
            /\ UNCHANGED <<s2r, s_sent>>
    /\ UNCHANGED <<ckVars, apiVars, files, link, r2s, sMainVars, s_chunk, s_strq, s_cur, s_tokens, s_err,
                   s_selected, s_dc_closed, sMsgVars, sHostVars, sErrVars,
                   receiverVars>>

\* let file_tokens = file_tokens_rx.await.  The sending half lives in the
\* on_message handler and is never dropped unsent, so only Ok is modelled.
SenderAwaitTokens ==
    /\ s_open = "await_tokens"
    /\ s_tok_val # <<>>
    /\ s_tokens' = s_tok_val[1]
    /\ s_open' = "publish"
    /\ UNCHANGED <<ckVars, apiVars, files, linkVars, sMainVars, s_chunk, s_strq, s_cur, s_err,
                   s_selected, s_sent, s_dc_closed, sMsgVars, sHostVars, sStatusVars, sErrVars,
                   receiverVars>>

\* selected_files_tx.send(file_tokens.keys().cloned().collect()).await
SenderPublish ==
    /\ s_open = "publish"
    /\ s_selected' = <<DOMAIN s_tokens>>
    /\ s_open' = "recv_file"
    /\ UNCHANGED <<ckVars, apiVars, files, linkVars, sMainVars, s_chunk, s_strq, s_cur, s_tokens, s_err,
                   s_sent, s_dc_closed, sMsgVars, sHostVars, sStatusVars, sErrVars,
                   receiverVars>>

\* file_tokens.get(&message.file_id) is Some
HasToken(toks, i) == i \in DOMAIN toks

\* Mutant: the header carries the file id as its token.
HeaderOfIdOnly(toks, i) == HdrFrame(i, i)

\* RTCSendFileHeaderMessage { id: message.file_id.clone(), token: file_token.clone() }
HeaderOf(toks, i) == HdrFrame(i, toks[i])

\* while let Some(message) = sending_rx.recv().await, and the token lookup
SenderRecvFile ==
    /\ s_open = "recv_file"
    /\ \/ /\ s_sendq # <<>>
          /\ s_sendq' = Tail(s_sendq)
          /\ s_cur' = Head(s_sendq)
          /\ IF HasToken(s_tokens, h_streams[Head(s_sendq)].id)
             THEN /\ s_open' = "header"
                  /\ UNCHANGED s_err
             ELSE /\ s_open' = "file_err"
                  /\ s_err' = [file_id |-> h_streams[Head(s_sendq)].id,
                               error |-> "Failed to get file token"]
       \/ /\ s_sendq = <<>>
          /\ s_send_closed
          /\ s_open' = "fin_text"
          /\ UNCHANGED <<s_sendq, s_cur, s_err>>
    /\ UNCHANGED <<ckVars, apiVars, files, linkVars, sMainVars, s_chunk, s_strq, s_tokens,
                   s_selected, s_sent, s_dc_closed, sMsgVars, s_send_closed, h_streams,
                   sStatusVars, sErrVars, receiverVars>>

\* data_channel.send_text(serde_json::to_string(&header)), then
\* process_in_chunks(.., message.binary_rx, ..) starts
SenderHeader ==
    /\ s_open = "header"
    /\ IF SCanSend
       THEN /\ s2r' = Append(s2r, HeaderOf(s_tokens, h_streams[s_cur].id))
            /\ s_sent' = Append(s_sent, HeaderOf(s_tokens, h_streams[s_cur].id))
            /\ s_chunk' = ChunkerStart
            /\ s_open' = "body"
            /\ UNCHANGED s_err
       ELSE /\ s_err' = [file_id |-> h_streams[s_cur].id, error |-> "send failed"]
            /\ s_open' = "file_err"
            /\ UNCHANGED <<s2r, s_sent, s_chunk>>
    /\ UNCHANGED <<ckVars, apiVars, files, link, r2s, sMainVars, s_strq, s_cur, s_tokens,
                   s_selected, s_dc_closed, sMsgVars, sHostVars, sStatusVars, sErrVars,
                   receiverVars>>

\* process_in_chunks returned (binary_rx is dropped with it): the next file,
\* or error_tx.send(RTCFileError { file_id, error: e.to_string() })
SenderBodyDone ==
    /\ s_open = "body"
    /\ s_chunk.pc \in {"ok", "err"}
    /\ h_streams' = [h_streams EXCEPT ![s_cur].rx_dropped = TRUE]
    /\ IF s_chunk.pc = "ok"
       THEN /\ s_open' = "recv_file"
            /\ s_cur' = 0
            /\ UNCHANGED s_err
       ELSE /\ s_open' = "file_err"
            /\ s_err' = [file_id |-> h_streams[s_cur].id, error |-> "send failed"]
            /\ UNCHANGED s_cur
    /\ UNCHANGED <<ckVars, apiVars, files, linkVars, sMainVars, s_chunk, s_strq, s_tokens,
                   s_selected, s_sent, s_dc_closed, sMsgVars, s_sendq, s_send_closed,
                   sStatusVars, sErrVars, receiverVars>>

\* Mutant: a per-file error ends the file loop.
SenderFileErrBreak ==
    /\ s_open = "file_err"
    /\ s_err_log' = Append(s_err_log, s_err)
    /\ s_err' = NoErr
    /\ h_streams' = [h_streams EXCEPT ![s_cur].rx_dropped = TRUE]
    /\ s_cur' = 0
    /\ s_open' = "fin_text"
    /\ UNCHANGED <<ckVars, apiVars, files, linkVars, sMainVars, s_chunk, s_strq, s_tokens,
                   s_selected, s_sent, s_dc_closed, sMsgVars, s_sendq, s_send_closed,
                   sStatusVars, receiverVars>>

\* let _ = error_tx.send(RTCFileError { .. }).await; continue.  The host's
\* listen_error loop forwards the error at once.
SenderFileErr ==
    /\ s_open = "file_err"
    /\ s_err_log' = Append(s_err_log, s_err)
    /\ s_err' = NoErr
    /\ h_streams' = [h_streams EXCEPT ![s_cur].rx_dropped = TRUE]
    /\ s_cur' = 0
    /\ s_open' = "recv_file"
    /\ UNCHANGED <<ckVars, apiVars, files, linkVars, sMainVars, s_chunk, s_strq, s_tokens,
                   s_selected, s_sent, s_dc_closed, sMsgVars, s_sendq, s_send_closed,
                   sStatusVars, receiverVars>>

\* Finishing: let _ = data_channel.send_text("".to_string()).await
SenderFinText ==
    /\ s_open = "fin_text"
    /\ IF SCanSend
       THEN /\ s2r' = Append(s2r, EndFrame)
            /\ s_sent' = Append(s_sent, EndFrame)
       ELSE UNCHANGED <<s2r, s_sent>>
    /\ s_open' = "fin_status"
    /\ UNCHANGED <<ckVars, apiVars, files, link, r2s, sMainVars, s_chunk, s_strq, s_cur, s_tokens, s_err,
                   s_selected, s_dc_closed, sMsgVars, sHostVars, sStatusVars, sErrVars,
                   receiverVars>>

\* let _ = status_tx.send(RTCStatus::Finished).await
SenderFinStatus ==
    /\ s_open = "fin_status"
    /\ SStatusSent("Finished") \/ SStatusDropped
    /\ s_open' = "close_dc"
    /\ UNCHANGED <<ckVars, apiVars, files, linkVars, sMainVars, s_chunk, s_strq, s_cur, s_tokens, s_err,
                   s_selected, s_sent, s_dc_closed, sMsgVars, sHostVars, sErrVars,
                   receiverVars>>

\* data_channel.close().await
SenderCloseDc ==
    /\ s_open = "close_dc"
    /\ s_dc_closed' = TRUE
    /\ s_open' = "done"
    /\ UNCHANGED <<ckVars, apiVars, files, linkVars, sMainVars, s_chunk, s_strq, s_cur, s_tokens, s_err,
                   s_selected, s_sent, sMsgVars, sHostVars, sStatusVars, sErrVars,
                   receiverVars>>

(***************************************************************************)
(* Sender: the data channel's on_message handler                           *)
(***************************************************************************)
\* serde_json::from_str::<RTCInitialResponse>(&initial_msg_str) is Ok: the text
\* is the whole serialized reply
ReplyParses(buf) == buf # <<>> /\ buf = ReplyBytes(r_tokens)

\* Mutant: the handler never gives up the accumulation buffer (no *lock = None).
SenderOnMessageKeep ==
    /\ r2s # <<>>
    /\ link = "up"
    /\ ~s_closed
    /\ r2s' = Tail(r2s)
    /\ LET msg == Head(r2s)
       IN  IF IsString(msg)
           THEN IF (~Utf8(s_init_buf.buf) \/ ReplyParses(s_init_buf.buf)) /\ s_tokens_tx
                THEN /\ s_tokens_tx' = FALSE
                     /\ s_tok_val' = <<IF Utf8(s_init_buf.buf) THEN r_tokens ELSE EmptyMap>>
                     /\ s_init_buf' = [some |-> TRUE, buf |-> <<>>]
                ELSE /\ s_init_buf' = [some |-> TRUE, buf |-> <<>>]
                     /\ UNCHANGED <<s_tokens_tx, s_tok_val>>
           ELSE /\ s_init_buf' = [s_init_buf EXCEPT !.buf = ExtendFromSlice(@, msg.bytes)]
                /\ UNCHANGED <<s_tokens_tx, s_tok_val>>
    /\ UNCHANGED <<ckVars, apiVars, files, link, s2r, sMainVars, sOpenVars, sHostVars, sStatusVars,
                   sErrVars, receiverVars>>

SenderOnMessage ==
    /\ r2s # <<>>
    /\ link = "up"
    /\ ~s_closed
    /\ r2s' = Tail(r2s)
    /\ LET msg == Head(r2s)
       IN  IF IsString(msg)
           THEN IF s_init_buf.some
                THEN IF ~Utf8(s_init_buf.buf) \/ ReplyParses(s_init_buf.buf)
                     THEN IF s_tokens_tx
                          THEN /\ s_tokens_tx' = FALSE
                               /\ s_tok_val' = <<IF Utf8(s_init_buf.buf)
                                                 THEN r_tokens ELSE EmptyMap>>
                               /\ s_init_buf' = [some |-> FALSE, buf |-> <<>>]
                          ELSE \* the one-shot is gone: return (buffer.split() emptied it)
                               /\ s_init_buf' = [some |-> TRUE, buf |-> <<>>]
                               /\ UNCHANGED <<s_tokens_tx, s_tok_val>>
                     ELSE \* no RTCInitialResponse: *lock = None
                          /\ s_init_buf' = [some |-> FALSE, buf |-> <<>>]
                          /\ UNCHANGED <<s_tokens_tx, s_tok_val>>
                ELSE UNCHANGED <<s_tokens_tx, s_tok_val, s_init_buf>>
           ELSE \* binary data: keep appending to the buffer
                /\ s_init_buf' = IF s_init_buf.some
                                 THEN [s_init_buf EXCEPT !.buf = ExtendFromSlice(@, msg.bytes)]
                                 ELSE s_init_buf
                /\ UNCHANGED <<s_tokens_tx, s_tok_val>>
    /\ UNCHANGED <<ckVars, apiVars, files, link, s2r, sMainVars, sOpenVars, sHostVars, sStatusVars,
                   sErrVars, receiverVars>>

(***************************************************************************)
(* The sending host (RTCSendController, main.rs send_handler)              *)
(***************************************************************************)
\* The sender waits at sending_rx.recv() on an empty queue
SWaitsFile == s_open = "recv_file" /\ s_sendq = <<>>

\* The sender waits at rx.recv() on the empty byte queue of stream k
SWaitsBody(k) ==
    /\ s_cur = k
    /\ s_open = "body"
    /\ s_chunk.pc = "recv"
    /\ h_streams[k].q = <<>>

\* The host is not in the middle of writing a file
LastClosed == IF h_streams = <<>> THEN TRUE ELSE h_streams[Len(h_streams)].closed

\* The ids submitted so far
Submitted == {h_streams[k].id : k \in 1..Len(h_streams)}

\* RTCSendController::send_file(file_id): a fresh byte channel, its RTCFile
\* queued on send_tx.  The host writes one file after the other.  The sender
\* sees what the host does only at its recv() calls, so the host is let act
\* when the sender waits for it.
HostSendFile ==
    /\ SWaitsFile
    /\ ~s_send_closed
    /\ Len(h_streams) < MaxSubmit
    /\ Len(s_sendq) < FileQueueDepth
    /\ LastClosed
    /\ \E i \in HostIds \ Submitted :
          /\ h_streams' = Append(h_streams, [id |-> i, q |-> <<>>, closed |-> FALSE,
                                             written |-> 0, nbuf |-> 0, rx_dropped |-> FALSE])
          /\ s_sendq' = Append(s_sendq, Len(h_streams) + 1)
    /\ UNCHANGED <<ckVars, apiVars, files, linkVars, sMainVars, sOpenVars, sMsgVars, s_send_closed,
                   sStatusVars, sErrVars, receiverVars>>

\* RTCFileSender::send(data): the next bytes of the file
HostWrite ==
    /\ h_streams # <<>>
    /\ LET k == Len(h_streams)
           st == h_streams[k]
       IN  /\ ~st.closed
           /\ ~st.rx_dropped
           /\ IF s_cur = k THEN SWaitsBody(k) ELSE TRUE
           /\ Len(st.q) < SendStreamDepth
           /\ st.nbuf < MaxFileBufs
           /\ \E n \in FileBufSizes :
                 h_streams' = [h_streams EXCEPT ![k].q = Append(@, Run(st.id, st.written, n)),
                                                ![k].written = @ + n,
                                                ![k].nbuf = @ + 1]
    /\ UNCHANGED <<ckVars, apiVars, files, linkVars, sMainVars, sOpenVars, sMsgVars, s_sendq,
                   s_send_closed, sStatusVars, sErrVars, receiverVars>>

\* The host drops the RTCFileSender: the end of the file, or the host gives up
\* after the sender dropped binary_rx
HostCloseStream ==
    /\ h_streams # <<>>
    /\ ~h_streams[Len(h_streams)].closed
    /\ IF h_streams[Len(h_streams)].rx_dropped THEN TRUE ELSE SWaitsBody(Len(h_streams))
    /\ h_streams' = [h_streams EXCEPT ![Len(h_streams)].closed = TRUE]
    /\ UNCHANGED <<ckVars, apiVars, files, linkVars, sMainVars, sOpenVars, sMsgVars, s_sendq,
                   s_send_closed, sStatusVars, sErrVars, receiverVars>>

\* The host drops send_tx: no more files
HostCloseSend ==
    /\ SWaitsFile
    /\ ~s_send_closed
    /\ LastClosed
    /\ s_send_closed' = TRUE
    /\ UNCHANGED <<ckVars, apiVars, files, linkVars, sMainVars, sOpenVars, sMsgVars, s_sendq,
                   h_streams, sStatusVars, sErrVars, receiverVars>>

\* listen_status: status_rx.recv()
HostRecvStatusS ==
    /\ s_status_open
    /\ s_status_n > 0
    /\ s_status_n' = s_status_n - 1
    /\ UNCHANGED <<ckVars, apiVars, files, linkVars, sMainVars, sOpenVars, sMsgVars, sHostVars,
                   s_status_log, s_status_open, sErrVars, receiverVars>>

(***************************************************************************)
(* The receiver's status queue, as the sender's                            *)
(***************************************************************************)
\* status_tx.send(st).await is Err: the host has dropped status_rx
RStatusDropped ==
    /\ r_status_open' = FALSE
    /\ r_status_n' = 0
    /\ UNCHANGED r_status_log

\* status_tx.send(st).await is Ok, once the queue has room
RStatusSent(st) ==
    /\ r_status_open
    /\ r_status_n < StatusDepth
    /\ r_status_n' = r_status_n + 1
    /\ r_status_log' = Append(r_status_log, st)
    /\ UNCHANGED r_status_open

\* status_tx.try_send(st) is Err: the queue is full or the host has dropped
\* status_rx
RTryFailed ==
    \/ /\ r_status_open
       /\ r_status_n >= StatusDepth
       /\ UNCHANGED rStatusVars
    \/ RStatusDropped

(***************************************************************************)
(* Receiver: accept_offer                                                  *)
(***************************************************************************)
\* The host calls accept_offer with the offer signaling relayed; the receive
\* task is spawned
ReceiverStart ==
    /\ r_main = "wait_offer"
    /\ s_main # "offer"
    /\ r_main' = "sdp"
    /\ UNCHANGED <<ckVars, apiVars, files, linkVars, senderVars, r_done, r_closed, rTaskVars, r_q,
                   rHostVars, rStatusVars, rErrVars>>

\* decode_sdp .. set_remote_description .. create_answer .. signaling.send_answer
ReceiverAnswer ==
    /\ r_main = "sdp"
    /\ r_main' = "status_sdp"
    /\ UNCHANGED <<ckVars, apiVars, files, linkVars, senderVars, r_done, r_closed, rTaskVars, r_q,
                   rHostVars, rStatusVars, rErrVars>>

\* status_tx.send(RTCStatus::SdpExchanged).await, peer_connection.close() and
\* Err when the host dropped status_rx
ReceiverStatusSdp ==
    /\ r_main = "status_sdp"
    /\ \/ /\ RStatusSent("SdpExchanged")
          /\ r_main' = "select"
          /\ UNCHANGED r_closed
       \/ /\ RStatusDropped
          /\ r_closed' = TRUE
          /\ r_main' = "returned_err"
    /\ UNCHANGED <<ckVars, apiVars, files, linkVars, senderVars, r_done, rTaskVars, r_q,
                   rHostVars, rErrVars>>

\* on_peer_connection_state_change: s == Failed, done_tx.try_send(())
ReceiverSeesFailed ==
    /\ ~r_closed
    /\ IF s_closed THEN TRUE ELSE link = "failed"
    /\ r_done = 0
    /\ r_done' = 1
    /\ UNCHANGED <<ckVars, apiVars, files, linkVars, senderVars, r_main, r_closed, rTaskVars, r_q,
                   rHostVars, rStatusVars, rErrVars>>

\* The receive task has returned
TaskReturned == r_task \in {"ret_ok", "ret_err"}

\* select!: _ = receive_task => "Receiving done."; peer_connection.close(); Ok(())
ReceiverSelectTask ==
    /\ r_main = "select"
    /\ TaskReturned
    /\ r_closed' = TRUE
    /\ r_main' = "returned_ok"
    /\ UNCHANGED <<ckVars, apiVars, files, linkVars, senderVars, r_done, rTaskVars, r_q,
                   rHostVars, rStatusVars, rErrVars>>

\* select!: _ = done_rx.recv() => ..
ReceiverSelectDone ==
    /\ r_main = "select"
    /\ r_done = 1
    /\ r_done' = 0
    /\ r_main' = "status_fin"
    /\ UNCHANGED <<ckVars, apiVars, files, linkVars, senderVars, r_closed, rTaskVars, r_q,
                   rHostVars, rStatusVars, rErrVars>>

\* let _ = status_tx.send(RTCStatus::Finished).await; peer_connection.close(); Ok(())
ReceiverStatusFin ==
    /\ r_main = "status_fin"
    /\ RStatusSent("Finished") \/ RStatusDropped
    /\ r_closed' = TRUE
    /\ r_main' = "returned_ok"
    /\ UNCHANGED <<ckVars, apiVars, files, linkVars, senderVars, r_done, rTaskVars, r_q,
                   rHostVars, rErrVars>>

(***************************************************************************)
(* Receiver: the data channel and the receive task                         *)
(***************************************************************************)
\* data_channel.send / send_text succeeds
RCanSend == LinkUp

\* on_data_channel (label "data"), d.on_open: data_channel_tx.try_send(d)
ReceiverDcOpen ==
    /\ r_dc = 0
    /\ LinkUp
    /\ r_dc' = 1
    /\ UNCHANGED <<ckVars, apiVars, files, linkVars, senderVars, rMainVars, r_task, r_onmsg, r_init_buf,
                   r_files, r_files_pub, r_tokens, r_chunk, r_strq, r_state, r_msg, r_err,
                   r_sent, r_q, rHostVars, rStatusVars, rErrVars>>

\* data_channel_rx.recv().await; try_send(RTCStatus::Connected); on_message is
\* installed
ReceiverTaskStart ==
    /\ r_task = "wait_dc"
    /\ r_dc = 1
    /\ r_dc' = 2
    /\ RStatusSent("Connected") \/ RTryFailed
    /\ r_onmsg' = TRUE
    /\ r_task' = "handshake"
    /\ UNCHANGED <<ckVars, apiVars, files, linkVars, senderVars, rMainVars, r_init_buf,
                   r_files, r_files_pub, r_tokens, r_chunk, r_strq, r_state, r_msg, r_err,
                   r_sent, r_q, rHostVars, rErrVars>>

\* Mutant: on_message queues with try_send, which discards the frame when the
\* queue is full.
ReceiverOnMessageTry ==
    /\ s2r # <<>>
    /\ link = "up"
    /\ ~r_closed
    /\ r_onmsg
    /\ s2r' = Tail(s2r)
    /\ r_q' = IF TaskReturned \/ Len(r_q) >= ReceiveDepth THEN r_q ELSE Append(r_q, Head(s2r))
    /\ UNCHANGED <<ckVars, apiVars, files, link, r2s, senderVars, rMainVars, rTaskVars,
                   rHostVars, rStatusVars, rErrVars>>

\* on_message: let _ = receive_tx.send(msg).await.  The channel is reliable and
\* ordered: a frame waits in flight until the handler is installed and the
\* queue has room; it is discarded once the task dropped receive_rx.
ReceiverOnMessage ==
    /\ s2r # <<>>
    /\ link = "up"
    /\ ~r_closed
    /\ r_onmsg
    /\ IF TaskReturned THEN TRUE ELSE Len(r_q) < ReceiveDepth
    /\ s2r' = Tail(s2r)
    /\ r_q' = IF TaskReturned THEN r_q ELSE Append(r_q, Head(s2r))
    /\ UNCHANGED <<ckVars, apiVars, files, link, r2s, senderVars, rMainVars, rTaskVars,
                   rHostVars, rStatusVars, rErrVars>>

\* serde_json::from_str::<RTCInitialMessage>(&initial_msg_str) is Ok: the text
\* is the whole serialized manifest
ManifestParses(buf) == buf # <<>> /\ buf = ManifestBytes(files)

\* Init: receive binary until the first text frame, then deserialize and
\* files_tx.send(initial_msg.files.clone())
ReceiverHandshake ==
    /\ r_task = "handshake"
    /\ r_q # <<>>
    /\ r_q' = Tail(r_q)
    /\ LET msg == Head(r_q)
       IN  IF IsString(msg)
           THEN IF Utf8(r_init_buf) /\ ManifestParses(r_init_buf)
                THEN /\ r_files' = <<files>>
                     /\ r_files_pub' = TRUE
                     /\ r_task' = "await_sel"
                     /\ UNCHANGED r_init_buf
                ELSE /\ r_task' = "ret_err"
                     /\ UNCHANGED <<r_files, r_files_pub, r_init_buf>>
           ELSE /\ r_init_buf' = ExtendFromSlice(r_init_buf, msg.bytes)
                /\ UNCHANGED <<r_files, r_files_pub, r_task>>
    /\ UNCHANGED <<ckVars, apiVars, files, linkVars, senderVars, rMainVars, r_dc, r_onmsg,
                   r_tokens, r_chunk, r_strq, r_state, r_msg, r_err,
                   r_sent, rHostVars, rStatusVars, rErrVars>>

\* Mutant: a dropped selection is taken for the empty selection.
SelectionOrEmpty(sel) == [ok |-> TRUE, set |-> sel.set]

\* selected_files_rx.await: Ok(selection), or Err once the host dropped the
\* sending half
SelectionResult(sel) == [ok |-> sel.st = "some", set |-> sel.set]

\* let Ok(selected_files) = selected_files_rx.await else { return Ok(()) };
\* then the tokens, and process_string_in_chunks of the reply starts
ReceiverSelection ==
    /\ r_task = "await_sel"
    /\ r_sel.st # "pending"
    /\ \/ /\ ~SelectionResult(r_sel).ok
          /\ r_task' = "ret_ok"
          /\ UNCHANGED <<r_tokens, r_strq, r_chunk>>
       \/ /\ SelectionResult(r_sel).ok
          /\ \E m \in TokenMaps(SelectionResult(r_sel).set) :
                /\ r_tokens' = m
                /\ r_strq' = <<ReplyBytes(m)>>
          /\ r_chunk' = ChunkerStart
          /\ r_task' = "reply"
    /\ UNCHANGED <<ckVars, apiVars, files, linkVars, senderVars, rMainVars, r_dc, r_onmsg, r_init_buf,
                   r_files, r_files_pub, r_state, r_msg, r_err,
                   r_sent, r_q, rHostVars, rStatusVars, rErrVars>>

\* process_string_in_chunks: rx.recv() yields the string, then None
ReceiverStringRecv ==
    /\ r_task = "reply"
    /\ r_chunk.pc = "recv"
    /\ IF r_strq # <<>>
       THEN /\ r_chunk' = ChunkerRecv(r_chunk, Head(r_strq))
            /\ r_strq' = Tail(r_strq)
       ELSE /\ r_chunk' = ChunkerClosed(r_chunk)
            /\ UNCHANGED r_strq
    /\ UNCHANGED <<ckVars, apiVars, files, linkVars, senderVars, rMainVars, r_dc, r_task, r_onmsg,
                   r_init_buf, r_files, r_files_pub, r_tokens, r_state, r_msg, r_err,
                   r_sent, r_q, rHostVars, rStatusVars, rErrVars>>

\* The chunks of the reply, each sent with data_channel.send(&chunk)
ReceiverChunkSend ==
    /\ r_task = "reply"
    /\ r_chunk.pc \in {"split", "tail"}
    /\ LET r == ChunkerSendStep(r_chunk, RCanSend)
       IN  /\ r_chunk' = r.st
           /\ r2s' = r2s \o BinFrames(r.sent)
           /\ r_sent' = r_sent \o BinFrames(r.sent)
    /\ UNCHANGED <<ckVars, apiVars, files, link, s2r, senderVars, rMainVars, r_dc, r_task, r_onmsg,
                   r_init_buf, r_files, r_files_pub, r_tokens, r_strq, r_state, r_msg, r_err,
                   r_q, rHostVars, rStatusVars, rErrVars>>

\* if let Err(e) = process_string_in_chunks(..).await { return Err(e) }
ReceiverReplyDone ==
    /\ r_task = "reply"
    /\ r_chunk.pc \in {"ok", "err"}
    /\ r_task' = IF r_chunk.pc = "ok" THEN "reply_end" ELSE "ret_err"
    /\ UNCHANGED <<ckVars, apiVars, files, linkVars, senderVars, rMainVars, r_dc, r_onmsg,
                   r_init_buf, r_files, r_files_pub, r_tokens, r_chunk, r_strq, r_state, r_msg,
                   r_err, r_sent, r_q, rHostVars, rStatusVars, rErrVars>>

\* Mark the end of the initial message: data_channel.send_text("").await?
ReceiverReplyEnd ==
    /\ r_task = "reply_end"
    /\ IF RCanSend
       THEN /\ r2s' = Append(r2s, EndFrame)
            /\ r_sent' = Append(r_sent, EndFrame)
            /\ r_task' = "files"
       ELSE /\ r_task' = "ret_err"
            /\ UNCHANGED <<r2s, r_sent>>
    /\ UNCHANGED <<ckVars, apiVars, files, link, s2r, senderVars, rMainVars, r_dc, r_onmsg,
                   r_init_buf, r_files, r_files_pub, r_tokens, r_chunk, r_strq, r_state, r_msg,
                   r_err, r_q, rHostVars, rStatusVars, rErrVars>>

\* file_state's RTCFileState is dropped: its binary_tx closes the file's stream
DropState(ss, k) == IF k = 0 THEN ss ELSE [ss EXCEPT ![k].open = FALSE]

\* initial_response.files.get(&header.id) is Some(entry) and header.token == *entry
TokenOk(toks, h) == h.id \in DOMAIN toks /\ h.token = toks[h.id]

\* Receive files: one frame taken from receive_rx
ReceiverRecv ==
    /\ r_task = "files"
    /\ r_q # <<>>
    /\ r_q' = Tail(r_q)
    /\ LET msg == Head(r_q)
       IN  CASE msg.kind = "end" ->
                  \* file_state = None; break
                  /\ r_streams' = DropState(r_streams, r_state)
                  /\ r_state' = 0
                  /\ r_task' = "ret_ok"
                  /\ UNCHANGED <<r_msg, r_err>>
             [] msg.kind = "junk" ->
                  \* serde_json::from_slice(&msg.data)? fails
                  /\ r_streams' = DropState(r_streams, r_state)
                  /\ r_state' = 0
                  /\ r_task' = "ret_err"
                  /\ UNCHANGED <<r_msg, r_err>>
             [] msg.kind = "hdr" ->
                  IF ~TokenOk(r_tokens, msg)
                  THEN /\ r_err' = [file_id |-> msg.id,
                                    error |-> IF msg.id \in DOMAIN r_tokens
                                              THEN "Invalid token" ELSE "File not found"]
                       /\ r_task' = "file_err"
                       /\ UNCHANGED <<r_streams, r_state, r_msg>>
                  ELSE IF msg.id \notin IdsOf(r_files[1])
                  THEN /\ r_err' = [file_id |-> msg.id,
                                    error |-> "Expected size to be available"]
                       /\ r_task' = "file_err"
                       /\ UNCHANGED <<r_streams, r_state, r_msg>>
                  ELSE \* file_state = Some(RTCFileState { .. }): the state before is dropped
                       /\ r_streams' = Append(DropState(r_streams, r_state),
                                              [id |-> msg.id,
                                               size |-> FindFile(r_files[1], msg.id).size,
                                               q |-> <<>>, open |-> TRUE, taken |-> FALSE,
                                               pub |-> <<>>])
                       /\ r_state' = Len(r_streams) + 1
                       /\ r_task' = "pub_file"
                       /\ UNCHANGED <<r_msg, r_err>>
             [] msg.kind = "bin" ->
                  IF r_state # 0
                  THEN /\ r_msg' = msg
                       /\ r_task' = "fwd"
                       /\ UNCHANGED <<r_streams, r_state, r_err>>
                  ELSE /\ r_err' = [file_id |-> "unknown",
                                    error |-> "Received binary data without a header"]
                       /\ r_task' = "file_err"
                       /\ UNCHANGED <<r_streams, r_state, r_msg>>
    /\ UNCHANGED <<ckVars, apiVars, files, linkVars, senderVars, rMainVars, r_dc, r_onmsg,
                   r_init_buf, r_files, r_files_pub, r_tokens, r_chunk, r_strq,
                   r_sent, r_sel, r_recvq, rStatusVars, rErrVars>>

\* let _ = receiving_tx.send(RTCFile { file_id, binary_rx: rx }).await
ReceiverPubFile ==
    /\ r_task = "pub_file"
    /\ Len(r_recvq) < FileQueueDepth
    /\ r_recvq' = Append(r_recvq, r_state)
    /\ r_task' = "files"
    /\ UNCHANGED <<ckVars, apiVars, files, linkVars, senderVars, rMainVars, r_dc, r_onmsg,
                   r_init_buf, r_files, r_files_pub, r_tokens, r_chunk, r_strq, r_state, r_msg,
                   r_err, r_sent, r_q, r_sel, r_streams, rStatusVars, rErrVars>>

\* state.binary_tx.send(msg.data): the chunk joins the byte queue of the current
\* file's stream
ForwardTo(ss, k, bytes) ==
    [ss EXCEPT ![k].q = Append(@, bytes), ![k].pub = ExtendFromSlice(@, bytes)]

\* publish binary data: state.binary_tx.send(msg.data).await?
ReceiverForward ==
    /\ r_task = "fwd"
    /\ Len(r_streams[r_state].q) < FileStreamDepth
    /\ r_streams' = ForwardTo(r_streams, r_state, r_msg.bytes)
    /\ r_msg' = NoMsg
    /\ r_task' = "files"
    /\ UNCHANGED <<ckVars, apiVars, files, linkVars, senderVars, rMainVars, r_dc, r_onmsg,
                   r_init_buf, r_files, r_files_pub, r_tokens, r_chunk, r_strq, r_state,
                   r_err, r_sent, r_q, r_sel, r_recvq, rStatusVars, rErrVars>>

\* Mutant: a per-file error ends the receive task with an error.
ReceiverFileErrFatal ==
    /\ r_task = "file_err"
    /\ r_err_log' = Append(r_err_log, r_err)
    /\ r_err' = NoErr
    /\ r_task' = "ret_err"
    /\ UNCHANGED <<ckVars, apiVars, files, linkVars, senderVars, rMainVars, r_dc, r_onmsg,
                   r_init_buf, r_files, r_files_pub, r_tokens, r_chunk, r_strq, r_state, r_msg,
                   r_sent, r_q, rHostVars, rStatusVars>>

\* let _ = error_tx.send(RTCFileError { .. }).await; continue.  The host's
\* listen_error loop forwards the error at once.
ReceiverFileErr ==
    /\ r_task = "file_err"
    /\ r_err_log' = Append(r_err_log, r_err)
    /\ r_err' = NoErr
    /\ r_task' = "files"
    /\ UNCHANGED <<ckVars, apiVars, files, linkVars, senderVars, rMainVars, r_dc, r_onmsg,
                   r_init_buf, r_files, r_files_pub, r_tokens, r_chunk, r_strq, r_state, r_msg,
                   r_sent, r_q, rHostVars, rStatusVars>>

(***************************************************************************)
(* The receiving host (RTCReceiveController, main.rs receive_handler)      *)
(***************************************************************************)
\* send_selection(selection), once listen_files returned the list
HostSelect ==
    /\ r_files_pub
    /\ r_sel.st = "pending"
    /\ \E s \in SUBSET HostIds : r_sel' = [st |-> "some", set |-> s]
    /\ UNCHANGED <<ckVars, apiVars, files, linkVars, senderVars, rMainVars, rTaskVars, r_q,
                   r_streams, r_recvq, rStatusVars, rErrVars>>

\* decline(): the receive task is left without a selection
HostDecline ==
    /\ r_files_pub
    /\ r_sel.st = "pending"
    /\ r_sel' = [st |-> "dropped", set |-> {}]
    /\ UNCHANGED <<ckVars, apiVars, files, linkVars, senderVars, rMainVars, rTaskVars, r_q,
                   r_streams, r_recvq, rStatusVars, rErrVars>>

\* listen_receiving: receiving_rx.recv()
HostTakeFile ==
    /\ r_recvq # <<>>
    /\ r_recvq' = Tail(r_recvq)
    /\ r_streams' = [r_streams EXCEPT ![Head(r_recvq)].taken = TRUE]
    /\ UNCHANGED <<ckVars, apiVars, files, linkVars, senderVars, rMainVars, rTaskVars, r_q,
                   r_sel, rStatusVars, rErrVars>>

\* RTCFileReceiver::receive: rx.recv() yields the next chunk
HostRead ==
    /\ \E k \in 1..Len(r_streams) :
          /\ r_streams[k].taken
          /\ r_streams[k].q # <<>>
          /\ r_streams' = [r_streams EXCEPT ![k].q = Tail(@)]
    /\ UNCHANGED <<ckVars, apiVars, files, linkVars, senderVars, rMainVars, rTaskVars, r_q,
                   r_sel, r_recvq, rStatusVars, rErrVars>>

\* listen_status: status_rx.recv()
HostRecvStatusR ==
    /\ r_status_open
    /\ r_status_n > 0
    /\ r_status_n' = r_status_n - 1
    /\ UNCHANGED <<ckVars, apiVars, files, linkVars, senderVars, rMainVars, rTaskVars, r_q,
                   rHostVars, r_status_log, r_status_open, rErrVars>>

(***************************************************************************)
(* The session: both peers, their hosts and the connection                 *)
(***************************************************************************)
CkIdle ==
    /\ ck_input = <<>>
    /\ ck_rx = <<>>
    /\ ck_state = ChunkerStart
    /\ ck_sink = <<>>
    /\ ck_fail = 0
    /\ SdpIdle
    /\ ServerIdle

Init == CkIdle /\ SessionInit

SenderNext ==
    \/ SenderSendOffer \/ SenderGotAnswer \/ SenderStatusSdp \/ SenderSetRemote
    \/ SenderSeesFailed \/ SenderDone
    \/ SenderDcOpen \/ SenderConnected \/ SenderStringRecv \/ SenderBodyRecv
    \/ SenderChunkSend \/ SenderManifestDone \/ SenderManifestEnd \/ SenderAwaitTokens
    \/ SenderPublish \/ SenderRecvFile \/ SenderHeader \/ SenderBodyDone \/ SenderFileErr
    \/ SenderFinText \/ SenderFinStatus \/ SenderCloseDc
    \/ SenderOnMessage

SenderHostNext ==
    \/ HostSendFile \/ HostWrite \/ HostCloseStream \/ HostCloseSend
    \/ HostRecvStatusS

ReceiverNext ==
    \/ ReceiverStart \/ ReceiverAnswer \/ ReceiverStatusSdp \/ ReceiverSeesFailed
    \/ ReceiverSelectTask \/ ReceiverSelectDone \/ ReceiverStatusFin
    \/ ReceiverDcOpen \/ ReceiverTaskStart \/ ReceiverOnMessage \/ ReceiverHandshake
    \/ ReceiverSelection \/ ReceiverStringRecv \/ ReceiverChunkSend \/ ReceiverReplyDone
    \/ ReceiverReplyEnd \/ ReceiverRecv \/ ReceiverPubFile \/ ReceiverForward
    \/ ReceiverFileErr

ReceiverHostNext ==
    \/ HostSelect \/ HostDecline \/ HostTakeFile \/ HostRead
    \/ HostRecvStatusR

\* A session of the two peers over a connection that does not break
Next ==
    \/ LinkConnect
    \/ SenderNext \/ SenderHostNext
    \/ ReceiverNext \/ ReceiverHostNext

Spec == Init /\ [][Next]_vars

(***************************************************************************)
(* The receiver against any remote peer: after the offer's manifest, or a  *)
(* cut one, the remote sends whatever frames it likes, and may close.      *)
(***************************************************************************)
\* The frames the remote sends after its first, at most
MaxRemote == 4

\* The frames of an honest sender's initial message
ManifestFrames(fs) ==
    LET m == ManifestBytes(fs)
    IN  (IF BLen(m) > CHUNK_SIZE
         THEN <<BinFrame(BTake(m, CHUNK_SIZE)), BinFrame(BDrop(m, CHUNK_SIZE))>>
         ELSE <<BinFrame(m)>>) \o <<EndFrame>>

\* The frames before the remote's free ones
RemoteFirst == {ManifestFrames(files), <<EndFrame>>}

\* The number of frames of fr that are the remote's first ones
FirstLen(fr) == IF fr[1] = EndFrame THEN 1 ELSE Len(ManifestFrames(files))

\* What the remote may send as its n-th frame: a header with a right or a wrong
\* token, for an offered or an unknown id, a binary frame of one byte of its
\* own, the empty text frame, or other text
RemoteFrames(n) ==
    {HdrFrame("A", "t1"), HdrFrame("A", "t2"), HdrFrame("B", "t2"),
     BinFrame(Run("raw", n, 1)), EndFrame, JunkFrame}

\* The remote has sent its offer and waits; its own callbacks play no part
RemoteInit ==
    /\ files \in Offers
    /\ ApiIdle
    /\ LinkInit
    /\ s_main = "wait_done"
    /\ SenderIdle
    /\ ReceiverInit

\* The remote's initial message, whole or cut down to its terminator
RemoteHandshake ==
    /\ LinkUp
    /\ s_sent = <<>>
    /\ \E fr \in RemoteFirst :
          /\ s2r' = fr
          /\ s_sent' = fr
    /\ UNCHANGED <<ckVars, apiVars, files, link, r2s, sMainVars, s_open, s_chunk, s_strq, s_cur,
                   s_tokens, s_err, s_selected, s_dc_closed, sMsgVars, sHostVars, sStatusVars,
                   sErrVars, receiverVars>>

\* The receiver has taken every frame sent so far out of its queue
RemoteIdle == s2r = <<>> /\ r_q = <<>>

\* One more frame of the remote's choice.  The receiver sees the frames one by
\* one in their order whenever they were sent, so the next is sent once the
\* receive task has taken the one before.
RemoteSend ==
    /\ LinkUp
    /\ s_sent # <<>>
    /\ RemoteIdle
    /\ Len(s_sent) < FirstLen(s_sent) + MaxRemote
    /\ \E f \in RemoteFrames(Len(s_sent) + 1) :
          /\ s2r' = <<f>>
          /\ s_sent' = Append(s_sent, f)
    /\ UNCHANGED <<ckVars, apiVars, files, link, r2s, sMainVars, s_open, s_chunk, s_strq, s_cur,
                   s_tokens, s_err, s_selected, s_dc_closed, sMsgVars, sHostVars, sStatusVars,
                   sErrVars, receiverVars>>

\* The remote closes its peer connection
RemoteClose ==
    /\ link = "up"
    /\ ~s_closed
    /\ RemoteIdle
    /\ s_closed' = TRUE
    /\ UNCHANGED <<ckVars, apiVars, files, linkVars, s_main, s_done, sOpenVars, sMsgVars, sHostVars,
                   sStatusVars, sErrVars, receiverVars>>

InitReceiver == CkIdle /\ RemoteInit

NextReceiver ==
    \/ LinkConnect \/ RemoteHandshake \/ RemoteSend \/ RemoteClose
    \/ ReceiverNext \/ ReceiverHostNext

SpecReceiver == InitReceiver /\ [][NextReceiver]_vars

(***************************************************************************)
(* Frame sequences, for the claims                                         *)
(***************************************************************************)
RECURSIVE FirstText(_, _)
\* The index of the first text frame of fr at or after i; 0 when there is none
FirstText(fr, i) ==
    IF i > Len(fr) THEN 0
    ELSE IF IsString(fr[i]) THEN i ELSE FirstText(fr, i + 1)

RECURSIVE PrevText(_, _)
\* The index of the last text frame of fr before i; 0 when there is none
PrevText(fr, i) ==
    IF i <= 1 THEN 0
    ELSE IF IsString(fr[i - 1]) THEN i - 1 ELSE PrevText(fr, i - 1)

\* The bytes of the frames of fr, concatenated
FrameBytes(fr) == BConcat([i \in 1..Len(fr) |-> fr[i].bytes])

\* The indices of the FileHeader frames of fr
HeaderIdx(fr) == {i \in 1..Len(fr) : fr[i].kind = "hdr"}

\* The sources of the bytes of b
Sources(b) == {b[n][1] : n \in 1..Len(b)}

\* a is the first bytes of b
IsPrefix(a, b) == BLen(a) <= BLen(b) /\ a = BTake(b, BLen(a))

\* The streams the receiver published for file id i
StreamsOf(i) == {k \in 1..Len(r_streams) : r_streams[k].id = i}

\* The bytes the sending host has written for its j-th submission
HostBytes(j) == Run(h_streams[j].id, 0, h_streams[j].written)

\* The frames of fr that carry bytes of the manifest
ManifestPart(fr) == SelectSeq(fr, LAMBDA f : "manifest" \in Sources(f.bytes))

\* The reply's terminator has reached the sender
ReplyEndArrived ==
    \E n \in 1..Len(r_sent) : r_sent[n] = EndFrame /\ Len(r2s) <= Len(r_sent) - n

(***************************************************************************)
(* Claims about a session                                                  *)
(***************************************************************************)
\* C1: what the receiver has published on the stream of a file id is at every
\* moment the first bytes of what the sending host wrote for that id, so no byte
\* of another file is among them; and once the receive loop has ended on the
\* terminator, every file that was offered, selected and submitted has exactly
\* one stream, which got exactly the bytes the host wrote.
C1_DataIntegrity ==
    /\ \A k \in 1..Len(r_streams) :
          \E j \in 1..Len(h_streams) :
             /\ h_streams[j].id = r_streams[k].id
             /\ IsPrefix(r_streams[k].pub, HostBytes(j))
    /\ r_task = "ret_ok" =>
          \A j \in 1..Len(h_streams) :
             (h_streams[j].id \in DOMAIN r_tokens /\ h_streams[j].id \in IdsOf(files)) =>
                 /\ Cardinality(StreamsOf(h_streams[j].id)) = 1
                 /\ \A k \in StreamsOf(h_streams[j].id) : r_streams[k].pub = HostBytes(j)

\* C1 witness: two files sent one after the other have both arrived, one of them
\* of a whole chunk or more.
C1_Witness ==
    /\ r_task = "ret_ok"
    /\ Len(r_streams) = 2
    /\ \A k \in 1..2 : r_streams[k].pub # <<>>
    /\ \E k \in 1..2 : BLen(r_streams[k].pub) >= CHUNK_SIZE

WireOk(fr) ==
    LET e == FirstText(fr, 1)
        withToken == SelectSeq(h_streams, LAMBDA h : h.id \in DOMAIN s_tokens)
        headers == SelectSeq(fr, LAMBDA f : f.kind = "hdr")
    IN  /\ e # 0
        /\ fr[e] = EndFrame
        /\ FrameBytes(SubSeq(fr, 1, e - 1)) = ManifestBytes(files)
        /\ Len(fr) > e
        /\ fr[Len(fr)] = EndFrame
        /\ \A i \in (e + 1)..(Len(fr) - 1) : fr[i].kind \in {"hdr", "bin"}
        /\ Len(headers) = Len(withToken)
        /\ \A n \in 1..Len(headers) :
              /\ headers[n].id = withToken[n].id
              /\ headers[n].token = s_tokens[headers[n].id]
        /\ \A i \in (e + 1)..(Len(fr) - 1) :
              fr[i].kind = "bin" =>
                  /\ PrevText(fr, i) > e
                  /\ Sources(fr[i].bytes) = {fr[PrevText(fr, i)].id}

\* C5: once the sender's open callback has run to its end in a session without
\* transport errors (the connection does not break, and the receiver has not
\* given up and closed), the frames it has sent are the manifest, the empty text
\* frame, the submitted files with a token one after the other, each a header
\* and then its own bytes, and the last empty text frame.
C5_WireSequence == (s_open = "done" /\ r_main # "returned_err") => WireOk(s_sent)

\* C6: every FileHeader the sender has sent carries an id of the token map it
\* received and that id's token; and of a submitted file whose id is not in the
\* map neither a header nor a byte is among the frames sent.
C6_OnlySelected ==
    /\ \A i \in HeaderIdx(s_sent) :
          /\ s_tok_val # <<>>
          /\ s_sent[i].id \in DOMAIN s_tok_val[1]
          /\ s_sent[i].token = s_tok_val[1][s_sent[i].id]
    /\ \A j \in 1..Len(h_streams) :
          (IF s_tok_val = <<>> THEN TRUE ELSE h_streams[j].id \notin DOMAIN s_tok_val[1]) =>
              \A i \in 1..Len(s_sent) :
                 /\ s_sent[i].id # h_streams[j].id
                 /\ h_streams[j].id \notin Sources(s_sent[i].bytes)

\* C6 witness: the sender is through; it has sent a selected file, and the host
\* had also submitted, and written bytes for, a file that was not selected.
C6_Witness ==
    /\ s_open = "done"
    /\ HeaderIdx(s_sent) # {}
    /\ \E j \in 1..Len(h_streams) :
          /\ h_streams[j].id \notin DOMAIN s_tokens
          /\ h_streams[j].written > 0

\* C8: once the receiver has declined and returned and nothing more is on its
\* way to the sender, the sender has received the empty token map.
C8_DeclineEmptyMap ==
    (r_sel.st = "dropped" /\ r_main = "returned_ok" /\ r2s = <<>>) =>
        s_tok_val = <<EmptyMap>>

\* C10: when the receive task has ended without an error (on the terminator or
\* on the decline), accept_offer has returned and the host still holds the
\* status stream, Finished has been put on it.
C10_ReceiverFinished ==
    (r_task = "ret_ok" /\ r_main = "returned_ok" /\ r_status_open) =>
        \E n \in 1..Len(r_status_log) : r_status_log[n] = "Finished"

(***************************************************************************)
(* Claims about the receiver against any remote                            *)
(***************************************************************************)
\* C7: a binary frame is published on a file's stream only if the last text
\* frame before it is a FileHeader of that file with the file's token: after a
\* header with an unknown id or a wrong token the binary frames are discarded,
\* also when a valid file was being received just before.
C7_BinaryAfterValidHeader ==
    \A k \in 1..Len(r_streams) :
       \A n \in 1..Len(r_streams[k].pub) :
          LET run == r_streams[k].pub[n]
          IN  run[1] = "raw" =>
                 \A i \in run[2]..(run[2] + run[3] - 1) :
                    LET j == PrevText(s_sent, i)
                    IN  /\ j # 0
                        /\ s_sent[j].kind = "hdr"
                        /\ s_sent[j].id = r_streams[k].id
                        /\ TokenOk(r_tokens, s_sent[j])

MaxReply == 3

\* The bytes of a cut the remote makes in its serialized reply
ReplyCut == 5

\* The token maps the remote may serialize
RemoteMaps == UNION {TokenMaps(s) : s \in SUBSET HostIds}

\* The bytes of the serialized reply among the frames fr
ReplyPart(fr) == BLen(FrameBytes(SelectSeq(fr, LAMBDA f : "reply" \in Sources(f.bytes))))

\* What the remote may send after the frames fr, m being the map it serializes:
\* the next bytes of the reply (up to a cut, or all that is left), a byte that
\* is no UTF-8, the empty text frame, or other text
RemoteReplyFrames(m, fr) ==
    LET off == ReplyPart(fr)
        left == ReplyJsonLen(m) - off
    IN  {BinFrame(Run("reply", off, n)) : n \in {k \in {ReplyCut, left} : k >= 1 /\ k <= left}}
        \cup {BinFrame(Run("raw", Len(fr), 1)), EndFrame, JunkFrame}

\* signaling relays the remote's answer
RemoteAnswer ==
    /\ r_main = "wait_offer"
    /\ s_main = "wait_answer"
    /\ r_main' = "remote"
    /\ UNCHANGED <<ckVars, apiVars, files, linkVars, senderVars, r_done, r_closed, rTaskVars, r_q,
                   rHostVars, rStatusVars, rErrVars>>

\* One more frame of the remote's choice; with its first frame the remote
\* settles the map it serializes.  The sender's handler sees the frames one by
\* one in their order, so the next is sent once the one before was handled.
RemoteReply ==
    /\ LinkUp
    /\ r2s = <<>>
    /\ Len(r_sent) < MaxReply
    /\ \E m \in (IF r_sent = <<>> THEN RemoteMaps ELSE {r_tokens}) :
          \E f \in RemoteReplyFrames(m, r_sent) :
             /\ r_tokens' = m
             /\ r2s' = <<f>>
             /\ r_sent' = Append(r_sent, f)
    /\ UNCHANGED <<ckVars, apiVars, files, link, s2r, senderVars, rMainVars, r_dc, r_task, r_onmsg,
                   r_init_buf, r_files, r_files_pub, r_chunk, r_strq, r_state, r_msg, r_err,
                   r_q, rHostVars, rStatusVars, rErrVars>>

\* The remote closes its peer connection
RemoteCloseR ==
    /\ link = "up"
    /\ ~r_closed
    /\ r2s = <<>>
    /\ r_closed' = TRUE
    /\ UNCHANGED <<ckVars, apiVars, files, linkVars, senderVars, r_main, r_done, rTaskVars, r_q,
                   rHostVars, rStatusVars, rErrVars>>

InitSender == CkIdle /\ SessionInit

NextSender ==
    \/ LinkConnect \/ RemoteAnswer \/ RemoteReply \/ RemoteCloseR
    \/ SenderNext \/ SenderHostNext

SpecSender == InitSender /\ [][NextSender]_vars

(***************************************************************************)
(* Claims about the sender against any remote                              *)
(***************************************************************************)
\* The sender's handler has been run on the first text frame of the remote
FirstTextHandled ==
    /\ FirstText(r_sent, 1) # 0
    /\ Len(r_sent) - Len(r2s) >= FirstText(r_sent, 1)

\* The bytes of the binary frames before the remote's first text frame
ReplyPrefix == FrameBytes(SubSeq(r_sent, 1, FirstText(r_sent, 1) - 1))

\* C11: once the sender's handler has been run on the first text frame and the
\* binary frames before it are no UTF-8 or no serialized SelectionReply, the
\* file-tokens one-shot holds the empty map, no FileHeader is among the frames
\* the sender has sent, and a selection published to the host is the empty set.
C11_BadReplyEmptyMap ==
    (FirstTextHandled /\ (~Utf8(ReplyPrefix) \/ ~ReplyParses(ReplyPrefix))) =>
        /\ s_tok_val = <<EmptyMap>>
        /\ HeaderIdx(s_sent) = {}
        /\ s_selected \in {<<>>, <<{}>>}

(***************************************************************************)
(* The host controllers on their own: the host calls each take-once method *)
(* up to MaxCalls times in any interleaving, while the core sends on, or   *)
(* drops, the other half of each channel.                                  *)
(***************************************************************************)
\* The resources whose receiving half the host takes
TakeOnce == {"files", "selected", "receive"}

\* The one-shots among them
OneShots == {"files", "selected"}

\* The error of the method whose Option is None
TakenError(r) ==
    CASE r = "files" -> "Files already received"
      [] r = "selected" -> "Selected files already received"
      [] r = "receive" -> "File receiver listened to"
      [] r = "select" -> "Selected files already sent"

\* The error of the method whose channel lost its other half
ClosedError(r) ==
    CASE r = "files" -> "Files channel closed"
      [] r = "selected" -> "Selected files channel closed"
      [] r = "receive" -> ""
      [] r = "select" -> "Selected files channel closed"

\* Mutant: the Option is looked at and left in place.
TakeSlotPeek(slot, r) == [some |-> slot[r], slot |-> slot]

\* self.<field>.lock().await.take(): the Option's content, None left behind
TakeSlot(slot, r) == [some |-> slot[r], slot |-> [slot EXCEPT ![r] = FALSE]]

\* What the core sends on a one-shot
ApiValues(r) == IF r = "files" THEN Offers ELSE SUBSET HostIds

\* The arguments of send_selection(selection) and of decline()
SelectArgs == {[some |-> TRUE, set |-> s] : s \in SUBSET HostIds} \cup {[some |-> FALSE, set |-> {}]}

\* Every resource has its own mutex and its own channel and shares no state with
\* the others, so a run exercises one of them: the others are as created.
Alone(r) ==
    \A x \in Resources \ {r} :
       /\ api_slot[x]
       /\ api_chan[x] = NoChan
       /\ \A n \in 1..MaxCalls : api_call[<<x, n>>] = NoCall

\* listen_files, listen_selected_files, RTCFileReceiver::receive up to the take:
\* let Some(rx) = self.<field>.lock().await.take() else { return Err(..) }
ApiTake ==
    /\ \E r \in TakeOnce, n \in 1..MaxCalls :
          /\ Alone(r)
          /\ api_call[<<r, n>>].pc = "idle"
          /\ api_slot' = TakeSlot(api_slot, r).slot
          /\ api_call' = [api_call EXCEPT ![<<r, n>>] =
                             IF TakeSlot(api_slot, r).some
                             THEN [pc |-> "await", err |-> "", got |-> <<>>]
                             ELSE [pc |-> "err", err |-> TakenError(r), got |-> <<>>]]
    /\ UNCHANGED <<ckVars, api_chan, files, linkVars, senderVars, receiverVars>>

\* listen_files, listen_selected_files: let Ok(v) = rx.await else { return Err(..) }; Ok(v)
ListenAwait ==
    /\ \E r \in OneShots, n \in 1..MaxCalls :
          /\ api_call[<<r, n>>].pc = "await"
          /\ IF api_chan[r].q # <<>>
             THEN /\ api_call' = [api_call EXCEPT ![<<r, n>>] =
                                     [pc |-> "ok", err |-> "", got |-> <<Head(api_chan[r].q)>>]]
                  /\ api_chan' = [api_chan EXCEPT ![r].q = <<>>]
             ELSE /\ api_chan[r].closed
                  /\ api_call' = [api_call EXCEPT ![<<r, n>>] =
                                     [pc |-> "err", err |-> ClosedError(r), got |-> <<>>]]
                  /\ UNCHANGED api_chan
    /\ UNCHANGED <<ckVars, api_slot, files, linkVars, senderVars, receiverVars>>

\* RTCFileReceiver::receive: while let Some(data) = rx.recv().await { sink.add(data) }; Ok(())
ReceiveLoop ==
    /\ \E n \in 1..MaxCalls :
          /\ api_call[<<"receive", n>>].pc = "await"
          /\ IF api_chan["receive"].q # <<>>
             THEN /\ api_call' = [api_call EXCEPT ![<<"receive", n>>].got =
                                     Append(@, Head(api_chan["receive"].q))]
                  /\ api_chan' = [api_chan EXCEPT !["receive"].q = Tail(@)]
             ELSE /\ api_chan["receive"].closed
                  /\ api_call' = [api_call EXCEPT ![<<"receive", n>>].pc = "ok"]
                  /\ UNCHANGED api_chan
    /\ UNCHANGED <<ckVars, api_slot, files, linkVars, senderVars, receiverVars>>

\* send_selection(selection), decline(): the take, then selected_tx.send(..)
SelectCall ==
    /\ \E n \in 1..MaxCalls, v \in SelectArgs :
          /\ Alone("select")
          /\ api_call[<<"select", n>>].pc = "idle"
          /\ api_slot' = TakeSlot(api_slot, "select").slot
          /\ IF ~TakeSlot(api_slot, "select").some
             THEN /\ api_call' = [api_call EXCEPT ![<<"select", n>>] =
                                     [pc |-> "err", err |-> TakenError("select"), got |-> <<v>>]]
                  /\ UNCHANGED api_chan
             ELSE IF api_chan["select"].closed
             THEN /\ api_call' = [api_call EXCEPT ![<<"select", n>>] =
                                     [pc |-> "err", err |-> ClosedError("select"), got |-> <<v>>]]
                  /\ UNCHANGED api_chan
             ELSE /\ api_call' = [api_call EXCEPT ![<<"select", n>>] =
                                     [pc |-> "ok", err |-> "", got |-> <<v>>]]
                  /\ api_chan' = [api_chan EXCEPT !["select"].q = <<v>>, !["select"].log = <<v>>]
    /\ UNCHANGED <<ckVars, files, linkVars, senderVars, receiverVars>>

\* The core sends: files_tx.send(files), selected_files_tx.send(keys), which use
\* up the one-shot's sender, or state.binary_tx.send(msg.data)
CoreSend ==
    /\ \E r \in TakeOnce :
          /\ Alone(r)
          /\ ~api_chan[r].closed
          /\ IF r \in OneShots
             THEN \E v \in ApiValues(r) :
                     api_chan' = [api_chan EXCEPT ![r] = [q |-> <<v>>, closed |-> TRUE, log |-> <<v>>]]
             ELSE /\ Len(api_chan[r].log) < MaxApiChunks
                  /\ Len(api_chan[r].q) < FileStreamDepth
                  /\ api_chan' = [api_chan EXCEPT
                                     ![r].q = Append(@, Run("A", Len(api_chan[r].log), 1)),
                                     ![r].log = Append(@, Run("A", Len(api_chan[r].log), 1))]
    /\ UNCHANGED <<ckVars, api_slot, api_call, files, linkVars, senderVars, receiverVars>>

\* The core drops its half: the receive task or the open callback returns, or
\* file_state is replaced
CoreDrop ==
    /\ \E r \in Resources :
          /\ Alone(r)
          /\ ~api_chan[r].closed
          /\ api_chan' = [api_chan EXCEPT ![r].closed = TRUE]
    /\ UNCHANGED <<ckVars, api_slot, api_call, files, linkVars, senderVars, receiverVars>>

\* The receive task's selected_files_rx.await yields what the host sent
CoreRecvSelect ==
    /\ api_chan["select"].q # <<>>
    /\ ~api_chan["select"].closed
    /\ api_chan' = [api_chan EXCEPT !["select"].q = <<>>, !["select"].closed = TRUE]
    /\ UNCHANGED <<ckVars, api_slot, api_call, files, linkVars, senderVars, receiverVars>>

InitApi ==
    /\ CkIdle
    /\ files = <<>>
    /\ ApiIdle
    /\ LinkInit
    /\ s_main = "offer"
    /\ SenderIdle
    /\ ReceiverInit

NextApi ==
    \/ ApiTake \/ ListenAwait \/ ReceiveLoop \/ SelectCall
    \/ CoreSend \/ CoreDrop \/ CoreRecvSelect

SpecApi == InitApi /\ [][NextApi]_vars

(***************************************************************************)
(* Claims about the host controllers                                       *)
(***************************************************************************)
\* The calls on resource r that took it out of its Option
Takers(r) ==
    {n \in 1..MaxCalls :
        \/ api_call[<<r, n>>].pc \in {"await", "ok"}
        \/ api_call[<<r, n>>].pc = "err" /\ api_call[<<r, n>>].err # TakenError(r)}

\* The calls on resource r that found its Option empty
Refused(r) ==
    {n \in 1..MaxCalls :
        api_call[<<r, n>>].pc = "err" /\ api_call[<<r, n>>].err = TakenError(r)}

AlreadyErrors ==
    {"Files already received", "Selected files already received", "Selected files already sent"}

C13_SelectOnce ==
    /\ Cardinality(Takers("select")) <= 1
    /\ \A n \in 1..MaxCalls :
          api_call[<<"select", n>>].pc = "err" /\ n \notin Takers("select") =>
              api_call[<<"select", n>>].err = "Selected files already sent"
    /\ Refused("select") # {} => Takers("select") # {}
    /\ api_chan["select"].log =
          (IF \E n \in 1..MaxCalls : api_call[<<"select", n>>].pc = "ok"
           THEN api_call[<<"select", CHOOSE n \in 1..MaxCalls :
                                        api_call[<<"select", n>>].pc = "ok">>].got
           ELSE <<>>)

\* C13 witness: decline() returned Ok, a send_selection of a file was refused,
\* and the receive task has taken the outcome.
C13_Witness ==
    /\ \E n \in Takers("select") :
          /\ api_call[<<"select", n>>].pc = "ok"
          /\ ~api_call[<<"select", n>>].got[1].some
    /\ \E n \in Refused("select") : api_call[<<"select", n>>].got[1].set # {}
    /\ api_chan["select"].q = <<>>
    /\ api_chan["select"].log # <<>>

(***************************************************************************)
(* More claims about the receiver against any remote                       *)
(***************************************************************************)
\* The frames the remote sent after its initial message
LoopFrames == IF s_sent = <<>> THEN <<>> ELSE SubSeq(s_sent, FirstLen(s_sent) + 1, Len(s_sent))

\* The receive loop was entered: the reply's terminator is sent
LoopEntered == \E n \in 1..Len(r_sent) : r_sent[n] = EndFrame

\* A FileHeader of a selected and offered file with that file's token
ValidHeader(h) == h.kind = "hdr" /\ TokenOk(r_tokens, h) /\ h.id \in IdsOf(files)

\* A FileHeader the receive loop rejects
BadHeader(h) == h.kind = "hdr" /\ ~ValidHeader(h)

\* The receive loop has dealt with every frame the remote sent
LoopSettled == LoopEntered /\ r_task = "files" /\ s2r = <<>> /\ r_q = <<>>

\* The bytes of the binary frames that follow frame i of fr up to the next text frame
BodyAfter(fr, i) ==
    LET e == FirstText(fr, i + 1)
    IN  FrameBytes(SubSeq(fr, i + 1, IF e = 0 THEN Len(fr) ELSE e - 1))

ReceiverReturned == r_main \in {"returned_ok", "returned_err"}

\* The status st was put on the status stream log
HasStatus(log, st) == \E n \in 1..Len(log) : log[n] = st

\* C15: when the receive task has failed on an initial message that is no
\* serialized OfferManifest and accept_offer has returned, the peer connection
\* is closed and, the host still holding the status stream, Error was put on it.
C15_ManifestFatal ==
    (r_task = "ret_err" /\ r_files = <<>> /\ ReceiverReturned) =>
        /\ r_closed
        /\ r_status_open => HasStatus(r_status_log, "Error")

(***************************************************************************)
(* The session with failures: the connection may break at any moment after *)
(* the descriptions are exchanged, and the SDP and signaling steps of      *)
(* either side may fail.                                                   *)
(***************************************************************************)
\* One of create_offer(..).await?, set_local_description(..).await?,
\* local_description().ok_or_else(..)?, signaling.send_offer(..).await?,
\* rx_answer.await?, decode_sdp(&remote_desc)?, set_remote_description(..).await?
\* fails: send_offer returns the Err at once
SenderSdpError ==
    /\ s_main \in {"offer", "wait_answer", "set_remote"}
    /\ s_main' = "sdp_err"
    /\ UNCHANGED <<ckVars, apiVars, files, linkVars, s_done, s_closed, sOpenVars, sMsgVars, sHostVars,
                   sStatusVars, sErrVars, receiverVars>>

\* LsSignalingConnection::send_offer's task: if let Err(e) = result
\* { let _ = status_tx.send(RTCStatus::Error(e.to_string())).await; }
SenderWrapError ==
    /\ s_main = "sdp_err"
    /\ SStatusSent("Error") \/ SStatusDropped
    /\ s_main' = "returned_sdp_err"
    /\ UNCHANGED <<ckVars, apiVars, files, linkVars, s_done, s_closed, sOpenVars, sMsgVars, sHostVars,
                   sErrVars, receiverVars>>

\* One of decode_sdp(&offer.sdp)?, RTCSessionDescription::offer(..)?,
\* set_remote_description(..).await?, create_answer(..).await?,
\* set_local_description(..).await?, signaling.send_answer(..).await? fails:
\* accept_offer returns the Err at once
ReceiverSdpError ==
    /\ r_main = "sdp"
    /\ r_main' = "sdp_err"
    /\ UNCHANGED <<ckVars, apiVars, files, linkVars, senderVars, r_done, r_closed, rTaskVars, r_q,
                   rHostVars, rStatusVars, rErrVars>>

\* LsSignalingConnection::accept_offer's task: if let Err(e) = result
\* { let _ = status_tx.send(RTCStatus::Error(e.to_string())).await; }
ReceiverWrapError ==
    /\ r_main = "sdp_err"
    /\ RStatusSent("Error") \/ RStatusDropped
    /\ r_main' = "returned_sdp_err"
    /\ UNCHANGED <<ckVars, apiVars, files, linkVars, senderVars, r_done, r_closed, rTaskVars, r_q,
                   rHostVars, rErrVars>>

\* The offer of one small file
InitFail ==
    /\ Init
    /\ Len(files) = 1

\* send_file, once in a session
HostSendOneFile == HostSendFile /\ h_streams = <<>>

NextFail ==
    \/ LinkConnect \/ LinkFail
    \/ SenderNext
    \/ HostSendOneFile \/ HostWrite \/ HostCloseStream \/ HostCloseSend \/ HostRecvStatusS
    \/ ReceiverNext \/ ReceiverHostNext
    \/ SenderSdpError \/ SenderWrapError
    \/ ReceiverSdpError \/ ReceiverWrapError

SpecFail == InitFail /\ [][NextFail]_vars

(***************************************************************************)
(* Claims about sessions with failures                                     *)
(***************************************************************************)
\* send_offer has returned
SenderReturned == s_main \in {"returned_ok", "returned_err", "sdp_err", "returned_sdp_err"}

\* accept_offer has returned
ReceiverExited == r_main \in {"returned_ok", "returned_err", "sdp_err", "returned_sdp_err"}

\* Finished or Error was put on the status stream
HasTerminal(log) == HasStatus(log, "Finished") \/ HasStatus(log, "Error")

\* C16: whenever send_offer or accept_offer has returned, on whatever path, that
\* side's peer connection is closed.
C16_ClosedOnExit ==
    /\ SenderReturned => s_closed
    /\ ReceiverExited => r_closed

\* The sender's open callback is not under way: it never ran or it has ended
SenderCallbackQuiet == s_open \in {"idle", "done"}

\* C17: when the connection has failed, a side's orchestration function has
\* returned and its callback or task has come to rest, that side's peer
\* connection is closed and, the host still holding the status stream, Finished
\* or Error was put on it.
C17_TerminalOnFailed ==
    /\ (link = "failed" /\ SenderReturned /\ SenderCallbackQuiet) =>
          /\ s_closed
          /\ s_status_open => HasTerminal(s_status_log)
    /\ (link = "failed" /\ ReceiverExited /\ TaskReturned) =>
          /\ r_closed
          /\ r_status_open => HasTerminal(r_status_log)

\* The receive task waits at receive_rx.recv() for a frame no handler will queue
ReceiveTaskStuck == r_closed /\ r_task = "files" /\ r_q = <<>>

\* The open callback waits at sending_rx.recv() and the host has dropped neither
\* send_tx nor a file
SenderCallbackWaitsHost == s_open \in {"recv_file", "body"}

\* C18: when the connection has failed after the handshake and both
\* orchestration functions have returned, the receive task is not left waiting
\* for a frame that can no longer come, and the open callback is waiting for
\* nothing but the host.
C18_TasksEnd ==
    (link = "failed" /\ LoopEntered /\ SenderReturned /\ ReceiverExited) =>
        /\ ~ReceiveTaskStuck
        /\ s_open = "await_tokens" => s_tok_val # <<>>

(***************************************************************************)
(* More claims about a session                                             *)
(***************************************************************************)
\* C19: a status sink the host has dropped ends nothing.  Neither send_offer nor
\* accept_offer returns an error (in a session without SDP or signaling errors
\* nothing else makes them), and the open callback comes to its finishing code
\* without having sent a frame only when the channel could not carry one.
C19_SilentClosure ==
    /\ s_main # "returned_err"
    /\ r_main # "returned_err"
    /\ (s_open = "fin_text" /\ s_sent = <<>>) => ~LinkUp

\* The empty text frames among fr are its first text frame, right after the
\* bytes whole, and after that at most the last frame of all
TerminatorsOk(fr, whole) ==
    \A i \in 1..Len(fr) :
       fr[i] = EndFrame =>
           IF i = FirstText(fr, 1)
           THEN FrameBytes(SubSeq(fr, 1, i - 1)) = whole
           ELSE i = Len(fr)

\* C20: an empty text frame the sender has sent is either its first text frame,
\* sent right after the whole serialized manifest, or the last frame it sent,
\* after the files; an empty text frame the receiver has sent comes right after
\* its whole serialized reply and is its last frame.
C20_TerminatorPlaces ==
    /\ TerminatorsOk(s_sent, ManifestBytes(files))
    /\ TerminatorsOk(r_sent, ReplyBytes(r_tokens))
    /\ \A i \in 1..Len(r_sent) : r_sent[i] = EndFrame => i = Len(r_sent)

(***************************************************************************)
(* Claims about the bytes and the statuses of a session                    *)
(***************************************************************************)
\* C21: on no stream the receiver has published are there more bytes than the
\* size the offer declares for the stream's file id (RTCFileState.size).
C21_DeclaredSize ==
    \A k \in 1..Len(r_streams) : BLen(r_streams[k].pub) <= r_streams[k].size

\* The number of empty text frames among fr
Terminators(fr) == Len(SelectSeq(fr, LAMBDA f : f = EndFrame))

\* The open callback has sent its last frame after the host closed the
\* submission queue, and the receiver has not closed meanwhile
FinishedSending ==
    /\ s_send_closed
    /\ s_open \in {"fin_status", "close_dc", "done"}
    /\ ~r_closed

\* C23: after the host closed the submission queue, the sender's last frame is
\* the one terminating empty text frame of the file phase; the data channel is
\* closed only after Finished was put on the status stream and the peer
\* connection only after the data channel; and once the callback is through,
\* send_offer is able to close the peer connection: the done signal it waits
\* for is there or can come without the remote peer doing anything.
C23_FinishOrder ==
    /\ FinishedSending =>
          /\ s_sent[Len(s_sent)] = EndFrame
          /\ Terminators(s_sent) = 2
    /\ (FinishedSending /\ s_dc_closed /\ s_status_open) =>
          s_status_log[Len(s_status_log)] = "Finished"
    /\ (FinishedSending /\ s_closed) => s_dc_closed
    /\ (FinishedSending /\ s_open = "done" /\ ~s_closed) => ENABLED (SenderSeesFailed \/ SenderDone)

(***************************************************************************)
(* More claims about the receiver against any remote                       *)
(***************************************************************************)
\* The frames the receive loop takes up: those the remote sent after its
\* initial message, up to the first on which the loop returns
LoopTaken ==
    LET fr == LoopFrames
        stop == {i \in 1..Len(fr) : fr[i].kind \in {"end", "junk"}}
    IN  IF stop = {} THEN fr
        ELSE SubSeq(fr, 1, CHOOSE i \in stop : \A j \in stop : i <= j)

\* The receive loop has dealt with every frame the remote sent, or has returned
LoopAtRest ==
    /\ LoopEntered
    /\ s2r = <<>>
    /\ r_q = <<>>
    /\ r_task \in {"files", "ret_ok", "ret_err"}

\* C24: once a text frame has followed an accepted FileHeader, be it another
\* FileHeader, valid or not, the empty text frame or other text, the stream
\* published for that header is closed and holds the bytes of the binary frames
\* between the two and no others.
C24_StreamEndsOnText ==
    LoopAtRest =>
        \A i \in 1..Len(LoopTaken) :
           (ValidHeader(LoopTaken[i]) /\ FirstText(LoopTaken, i + 1) # 0) =>
               LET k == Len(SelectSeq(SubSeq(LoopTaken, 1, i), ValidHeader))
               IN  /\ ~r_streams[k].open
                   /\ r_streams[k].pub = BodyAfter(LoopTaken, i)

(***************************************************************************)
(* Claims about the status streams                                         *)
(***************************************************************************)
\* The place of a status in the state machines; Error has none
StatusRank(st) ==
    CASE st = "SdpExchanged" -> 1
      [] st = "Connected" -> 2
      [] st = "Finished" -> 3
      [] OTHER -> 0

\* Of any two statuses of the log with a place, the one put first has the lower
StatusOrderOk(log) ==
    \A i, j \in 1..Len(log) :
       (i < j /\ StatusRank(log[i]) # 0 /\ StatusRank(log[j]) # 0) =>
           StatusRank(log[i]) < StatusRank(log[j])

\* C25: on the status stream of either side SdpExchanged, Connected and
\* Finished, as far as they are put on it, come in this order and once each.
C25_StatusOrder ==
    /\ StatusOrderOk(s_status_log)
    /\ StatusOrderOk(r_status_log)

\* C26: once the receive task has taken the opened data channel, the host still
\* holding the status stream, Connected was put on the stream.
C26_ConnectedReaches ==
    (r_task # "wait_dc" /\ r_status_open) => HasStatus(r_status_log, "Connected")

(***************************************************************************)
(* Claims about the sender's file loop                                     *)
(***************************************************************************)
\* The open callback is in its finishing code or through
SenderFinishing == s_open \in {"fin_text", "fin_status", "close_dc", "done"}

\* C27: a submitted file without a token is reported as FileError "Failed to
\* get file token" and does not end the file loop, which only the host ends by
\* closing the submission queue; once the callback is through without a
\* transport error, every submitted file with a token, also one submitted after
\* a file without, was sent whole after its header, the last frame is the
\* terminator and the last status Finished.
C27_MissingTokenGoesOn ==
    /\ \A j \in 1..Len(h_streams) :
          (h_streams[j].rx_dropped /\ ~HasToken(s_tokens, h_streams[j].id)) =>
              \E n \in 1..Len(s_err_log) :
                 s_err_log[n] = [file_id |-> h_streams[j].id,
                                 error |-> "Failed to get file token"]
    /\ (s_selected # <<>> /\ SenderFinishing) => s_send_closed
    /\ (s_open = "done" /\ s_send_closed /\ ~r_closed) =>
          /\ \A j \in 1..Len(h_streams) :
                HasToken(s_tokens, h_streams[j].id) =>
                    \E i \in HeaderIdx(s_sent) :
                       /\ s_sent[i] = HeaderOf(s_tokens, h_streams[j].id)
                       /\ BodyAfter(s_sent, i) = HostBytes(j)
          /\ s_sent[Len(s_sent)] = EndFrame
          /\ s_status_open => s_status_log[Len(s_status_log)] = "Finished"

\* C27 witness: the host submitted a file without a token and then one with a
\* token and a whole chunk of bytes; the first was reported, the second sent,
\* and the callback is through with Finished.
C27_Witness ==
    /\ s_open = "done"
    /\ ~r_closed
    /\ Len(h_streams) = 2
    /\ ~HasToken(s_tokens, h_streams[1].id)
    /\ HasToken(s_tokens, h_streams[2].id)
    /\ h_streams[2].written >= CHUNK_SIZE
    /\ s_err_log = <<[file_id |-> h_streams[1].id, error |-> "Failed to get file token"]>>
    /\ \E i \in HeaderIdx(s_sent) : BodyAfter(s_sent, i) = HostBytes(2)
    /\ s_status_log[Len(s_status_log)] = "Finished"

(***************************************************************************)
(* More claims about process_in_chunks                                     *)
(***************************************************************************)
\* C28: once a call of the callback has returned Err, process_in_chunks has
\* returned Err and that call is the last one made; from then on no buffer is
\* taken from the input, the callback is not called and the leftover is not
\* flushed.
C28_SinkFailureStops ==
    /\ [](ck_fail # 0 => (ck_state.pc = "err" /\ Len(ck_sink) = ck_fail))
    /\ [][ck_fail # 0 => UNCHANGED <<ck_rx, ck_sink, ck_state>>]_vars

\* C28 witness: the callback failed on the second chunk while a buffer was still
\* waiting in the input and bytes were left over.
C28_Witness ==
    /\ ck_fail = 2
    /\ ck_state.pc = "err"
    /\ ck_rx # <<>>
    /\ ck_state.buffer # <<>>

\* The number of terminal statuses, Finished or Error, in the log
Terminals(log) == Len(SelectSeq(log, LAMBDA st : st \in {"Finished", "Error"}))

\* C30: Finished and Error taken together, at most one is ever put on the
\* sender's status stream.
C30_OneTerminal == Terminals(s_status_log) <= 1

(***************************************************************************)
(* encode_sdp / decode_sdp.  Byte vectors are sequences of 0 .. 255, text  *)
(* is a sequence of characters.                                            *)
(***************************************************************************)
Upper == <<"A", "B", "C", "D", "E", "F", "G", "H", "I", "J", "K", "L", "M",
           "N", "O", "P", "Q", "R", "S", "T", "U", "V", "W", "X", "Y", "Z">>

Lower == <<"a", "b", "c", "d", "e", "f", "g", "h", "i", "j", "k", "l", "m",
           "n", "o", "p", "q", "r", "s", "t", "u", "v", "w", "x", "y", "z">>

Digits == <<"0", "1", "2", "3", "4", "5", "6", "7", "8", "9">>

\* The alphabet of base64::engine::general_purpose::URL_SAFE_NO_PAD
UrlSafe == Upper \o Lower \o Digits \o <<"-", "_">>

\* The alphabet of base64::engine::general_purpose::STANDARD
Standard == Upper \o Lower \o Digits \o <<"+", "/">>

\* The sextets of the bytes v, the last one filled up with zero bits
RECURSIVE Sextets(_)
Sextets(v) ==
    IF v = <<>> THEN <<>>
    ELSE IF Len(v) = 1 THEN <<v[1] \div 4, (v[1] % 4) * 16>>
    ELSE IF Len(v) = 2
    THEN LET n == v[1] * 256 + v[2]
         IN  <<n \div 1024, (n \div 16) % 64, (n % 16) * 4>>
    ELSE LET n == v[1] * 65536 + v[2] * 256 + v[3]
         IN  <<n \div 262144, (n \div 4096) % 64, (n \div 64) % 64, n % 64>>
             \o Sextets(SubSeq(v, 4, Len(v)))

\* Mutant: the standard alphabet, padded with '=' to a multiple of four.
B64EncodePadded(v) ==
    LET x == Sextets(v)
    IN  [i \in 1..Len(x) |-> Standard[x[i] + 1]]
        \o [i \in 1..((4 - (Len(x) % 4)) % 4) |-> "="]

\* BASE_64_SDP.encode(bytes), BASE_64_SDP = URL_SAFE_NO_PAD
B64Encode(v) ==
    LET x == Sextets(v)
    IN  [i \in 1..Len(x) |-> UrlSafe[x[i] + 1]]

\* The place of character c in the URL-safe alphabet, from 0; 64 if it has none
B64Index(c) ==
    IF \E i \in 1..64 : UrlSafe[i] = c
    THEN (CHOOSE i \in 1..64 : UrlSafe[i] = c) - 1
    ELSE 64

\* The bytes of the sextets x: four make three bytes, a last group of three makes
\* two and one of two makes one
RECURSIVE Octets(_)
Octets(x) ==
    IF Len(x) < 2 THEN <<>>
    ELSE IF Len(x) = 2 THEN <<x[1] * 4 + x[2] \div 16>>
    ELSE IF Len(x) = 3 THEN <<x[1] * 4 + x[2] \div 16, (x[2] % 16) * 16 + x[3] \div 4>>
    ELSE <<x[1] * 4 + x[2] \div 16, (x[2] % 16) * 16 + x[3] \div 4, (x[3] % 4) * 64 + x[4]>>
         \o Octets(SubSeq(x, 5, Len(x)))

\* BASE_64_SDP.decode(s): Err on a character outside the alphabet ('=' too, the
\* engine takes no padding), on a length of 1 modulo 4 and on a last character
\* with bits that belong to no byte
B64Decode(t) ==
    LET x == [i \in 1..Len(t) |-> B64Index(t[i])]
        n == Len(x)
    IN  IF \/ \E i \in 1..n : x[i] = 64
           \/ n % 4 = 1
           \/ n % 4 = 2 /\ x[n] % 16 # 0
           \/ n % 4 = 3 /\ x[n] % 4 # 0
        THEN [ok |-> FALSE, vec |-> <<>>]
        ELSE [ok |-> TRUE, vec |-> Octets(x)]

\* lgwin of brotli::CompressorWriter::new(Vec::new(), 4096, 11, 24)
LgWin == 24

\* The first bits of a Brotli stream, WBITS: 1 and then lgwin - 17 in three bits
BrotliHeader == 1 + 2 * (LgWin - 17)

\* The bits that end a Brotli stream, ISLAST and ISLASTEMPTY, both 1
BrotliLast == 1 + 2 * 1

\* brotli::CompressorWriter::new(Vec::new(), 4096, 11, 24), write_all(input) and
\* into_inner(), which finishes the stream: the header, a meta-block of the
\* input and the end of the stream.  The entropy coding of a meta-block is not
\* modelled: it carries its length and its bytes.
BrotliStream(input) ==
    <<BrotliHeader>> \o (IF input = <<>> THEN <<>> ELSE <<Len(input)>> \o input)
    \o <<BrotliLast>>

\* brotli::Decompressor::new(data, 4096).read_to_end(..): Err unless data is a
\* whole stream
BrotliDecompress(v) ==
    IF Len(v) < 2 \/ v[1] # BrotliHeader \/ v[Len(v)] # BrotliLast
    THEN [ok |-> FALSE, vec |-> <<>>]
    ELSE IF Len(v) = 2 THEN [ok |-> TRUE, vec |-> <<>>]
    ELSE IF Len(v) = v[2] + 3 THEN [ok |-> TRUE, vec |-> SubSeq(v, 3, Len(v) - 1)]
    ELSE [ok |-> FALSE, vec |-> <<>>]

\* String::from_utf8(v) is Ok: characters of one byte, or of a lead byte and
\* one, two or three continuation bytes
RECURSIVE Utf8Bytes(_)
Utf8Bytes(v) ==
    IF v = <<>> THEN TRUE
    ELSE LET k == IF v[1] < 128 THEN 1
                  ELSE IF v[1] \in 194..223 THEN 2
                  ELSE IF v[1] \in 224..239 THEN 3
                  ELSE IF v[1] \in 240..244 THEN 4
                  ELSE 0
         IN  /\ k # 0
             /\ Len(v) >= k
             /\ \A i \in 2..k : v[i] \in 128..191
             /\ Utf8Bytes(SubSeq(v, k + 1, Len(v)))

\* The characters of the SDP strings: "v", "=", "\n", "~", "?" and "é"
SdpChars == {<<118>>, <<61>>, <<10>>, <<126>>, <<63>>, <<195, 169>>}

\* The characters of an SDP string, at most
MaxSdp == 3

RECURSIVE Flatten(_)
Flatten(cs) == IF cs = <<>> THEN <<>> ELSE Head(cs) \o Flatten(Tail(cs))

\* The SDP strings, as bytes
SdpStrings == {Flatten(cs) : cs \in UNION {[1..n -> SdpChars] : n \in 0..MaxSdp}}

InitSdp ==
    /\ files = <<>>
    /\ ApiIdle
    /\ LinkInit
    /\ s_main = "offer"
    /\ SenderIdle
    /\ ReceiverInit
    /\ ck_input = <<>>
    /\ ck_rx = <<>>
    /\ ck_state = ChunkerStart
    /\ ck_sink = <<>>
    /\ ck_fail = 0
    /\ ServerIdle
    /\ sdp_s \in SdpStrings
    /\ sdp_state = [pc |-> "idle", vec |-> <<>>, text |-> <<>>, res |-> <<>>]

\* encode_sdp: compressor.write_all(s.as_bytes())
SdpWrite ==
    /\ sdp_state.pc = "idle"
    /\ sdp_state' = [sdp_state EXCEPT !.pc = "written", !.vec = sdp_s]
    /\ UNCHANGED <<ck_input, ck_rx, ck_state, ck_sink, ck_fail, sdp_s, srvVars, sessVars>>

\* encode_sdp: compressor.into_inner()
SdpFinish ==
    /\ sdp_state.pc = "written"
    /\ sdp_state' = [sdp_state EXCEPT !.pc = "compressed", !.vec = BrotliStream(@)]
    /\ UNCHANGED <<ck_input, ck_rx, ck_state, ck_sink, ck_fail, sdp_s, srvVars, sessVars>>

\* encode_sdp: BASE_64_SDP.encode(..)
SdpEncode ==
    /\ sdp_state.pc = "compressed"
    /\ sdp_state' = [sdp_state EXCEPT !.pc = "encoded", !.vec = <<>>,
                                      !.text = B64Encode(sdp_state.vec)]
    /\ UNCHANGED <<ck_input, ck_rx, ck_state, ck_sink, ck_fail, sdp_s, srvVars, sessVars>>

\* decode_sdp of the encoded text: let decoded_data = BASE_64_SDP.decode(s)?
SdpDecode ==
    /\ sdp_state.pc = "encoded"
    /\ LET r == B64Decode(sdp_state.text)
       IN  sdp_state' = [sdp_state EXCEPT !.pc = IF r.ok THEN "decoded" ELSE "err",
                                          !.vec = r.vec]
    /\ UNCHANGED <<ck_input, ck_rx, ck_state, ck_sink, ck_fail, sdp_s, srvVars, sessVars>>

\* decode_sdp: decompressor.read_to_end(&mut decompressed).expect("Decompression failed")
SdpDecompress ==
    /\ sdp_state.pc = "decoded"
    /\ LET r == BrotliDecompress(sdp_state.vec)
       IN  sdp_state' = [sdp_state EXCEPT !.pc = IF r.ok THEN "inflated" ELSE "panic",
                                          !.vec = r.vec]
    /\ UNCHANGED <<ck_input, ck_rx, ck_state, ck_sink, ck_fail, sdp_s, srvVars, sessVars>>

\* decode_sdp: let result = String::from_utf8(decompressed)?; Ok(result)
SdpFromUtf8 ==
    /\ sdp_state.pc = "inflated"
    /\ sdp_state' = IF Utf8Bytes(sdp_state.vec)
                    THEN [sdp_state EXCEPT !.pc = "ok", !.res = <<sdp_state.vec>>, !.vec = <<>>]
                    ELSE [sdp_state EXCEPT !.pc = "err", !.vec = <<>>]
    /\ UNCHANGED <<ck_input, ck_rx, ck_state, ck_sink, ck_fail, sdp_s, srvVars, sessVars>>

NextSdp ==
    \/ SdpWrite \/ SdpFinish \/ SdpEncode
    \/ SdpDecode \/ SdpDecompress \/ SdpFromUtf8

SpecSdp == InitSdp /\ [][NextSdp]_vars

(***************************************************************************)
(* Claims about encode_sdp / decode_sdp                                    *)
(***************************************************************************)
\* The characters of base64url
UrlChars == {UrlSafe[i] : i \in 1..64}

MaxFlood == 18

\* The remote has sent the empty text frame after its initial message
FloodEnded == \E i \in 1..Len(LoopFrames) : LoopFrames[i] = EndFrame

\* The next frame, sent while the frames before may still be in flight
RemoteFlood ==
    /\ LinkUp
    /\ s_sent # <<>>
    /\ Len(LoopFrames) < MaxFlood
    /\ ~FloodEnded
    /\ \E f \in IF LoopFrames = <<>>
                THEN {HdrFrame("A", "t1")}
                ELSE {BinFrame(Run("raw", Len(s_sent) + 1, 1)), EndFrame} :
          /\ s2r' = Append(s2r, f)
          /\ s_sent' = Append(s_sent, f)
    /\ UNCHANGED <<ckVars, apiVars, files, link, r2s, sMainVars, s_open, s_chunk, s_strq, s_cur,
                   s_tokens, s_err, s_selected, s_dc_closed, sMsgVars, sHostVars, sStatusVars,
                   sErrVars, receiverVars>>

\* The offer of one small file
InitQueue ==
    /\ InitReceiver
    /\ Len(files) = 1

NextQueue ==
    \/ LinkConnect \/ RemoteHandshake \/ RemoteFlood \/ RemoteClose
    \/ ReceiverNext \/ ReceiverHostNext

SpecQueue == InitQueue /\ [][NextQueue]_vars

(***************************************************************************)
(* Claims about the receiver's queues                                      *)
(***************************************************************************)
\* The last n frames of fr
LastFrames(fr, n) == SubSeq(fr, Len(fr) - n + 1, Len(fr))

\* C29: the inbound queue never holds more than 16 frames and a file's byte
\* queue never more than 4 chunks.  While the receive task runs, the frames in
\* the inbound queue and behind it are the last frames the remote sent, in the
\* order sent: none was dropped, doubled or moved.  What a file's stream was
\* given is at every moment the first bytes of the binary frames after its
\* header, the chunks still queued for the host are the last of them, and once
\* the loop has dealt with every frame it is all of them.
C29_QueuesLossless ==
    /\ Len(r_q) <= ReceiveDepth
    /\ \A k \in 1..Len(r_streams) : Len(r_streams[k].q) <= FileStreamDepth
    /\ (~TaskReturned /\ ~r_closed) =>
          /\ Len(r_q) + Len(s2r) <= Len(s_sent)
          /\ r_q \o s2r = LastFrames(s_sent, Len(r_q) + Len(s2r))
    /\ \A k \in 1..Len(r_streams) :
          /\ IsPrefix(r_streams[k].pub, BodyAfter(LoopFrames, 1))
          /\ BConcat(r_streams[k].q)
                = BDrop(r_streams[k].pub, BLen(r_streams[k].pub) - BLen(BConcat(r_streams[k].q)))
    /\ (LoopAtRest /\ r_task # "ret_err" /\ r_streams # <<>>) =>
          r_streams[1].pub = BodyAfter(LoopFrames, 1)

\* C29 witness: the receive task is suspended awaiting the host's selection,
\* the inbound queue holds 16 frames and the message callback waits with the
\* next frame, more frames behind it.
C29_Witness ==
    /\ r_task = "await_sel"
    /\ r_sel.st = "pending"
    /\ Len(r_q) = ReceiveDepth
    /\ Len(s2r) >= 2

(***************************************************************************)
(* The sender's handler after the first text frame                         *)
(***************************************************************************)
\* The sender's handler runs on the next frame of the remote in this step
HandlerStep == r2s # <<>> /\ r2s' = Tail(r2s)

\* The number among the remote's frames of the one the handler runs on next
NextHandled == Len(r_sent) - Len(r2s) + 1

\* C31: the file-tokens one-shot is resolved at most once, and by the handler's
\* run on the first inbound text frame; a run of the handler on a binary or text
\* frame after the first text frame leaves the one-shot and its value, the
\* accumulation buffer and the selection published to the host as they were.
C31_LaterFramesInert ==
    [][/\ s_tok_val # <<>> => s_tok_val' = s_tok_val
       /\ s_tok_val' # s_tok_val => (HandlerStep /\ NextHandled = FirstText(r_sent, 1))
       /\ (FirstTextHandled /\ HandlerStep) =>
             UNCHANGED <<s_tok_val, s_tokens_tx, s_init_buf, s_selected>>]_vars

\* The one-shot is resolved and the handler has run on a binary frame that came
\* after the first text frame
C31_Witness ==
    /\ FirstTextHandled
    /\ s_tok_val # <<>>
    /\ \E i \in (FirstText(r_sent, 1) + 1)..(Len(r_sent) - Len(r2s)) : ~IsString(r_sent[i])

(***************************************************************************)
(* The signaling server's REST controller: send_offer and send_answer      *)
(* requests of clients in any interleaving.  The peers registered in       *)
(* tx_map are an input.                                                    *)
(***************************************************************************)
\* MAX_REQUEST_PER_IP_PER_DAY, as the server's environment sets it
MAX_REQUEST == 2

\* Request n arrives: the handler has its ip_group and its payload
Arrives(n, ty) ==
    /\ requests[n].pc = "idle"
    /\ \A k \in 1..(n - 1) : requests[k].pc # "idle"
    /\ \E g \in IpGroups, t \in PeerIds :
          requests' = [requests EXCEPT ![n] =
                          [pc |-> "ddos", ws_type |-> ty, ip_group |-> g, target |-> t,
                           tx |-> <<>>, res |-> ""]]
    /\ UNCHANGED <<ck_input, ck_rx, ck_state, ck_sink, ck_fail, sdpVars, request_count_map,
                   tx_map, peer_rx, sessVars>>

\* send_offer up to its call of protect_ddos
RestSendOffer(n) == Arrives(n, "Offer")

\* send_answer up to its call of protect_ddos
RestSendAnswer(n) == Arrives(n, "Answer")

\* Mutant: the limit is compared with > in place of >=.
ProtectDdosLate(n) ==
    /\ requests[n].pc = "ddos"
    /\ LET g == requests[n].ip_group
           count == request_count_map[g]
       IN  IF count > MAX_REQUEST
           THEN /\ requests' = [requests EXCEPT ![n].pc = "done", ![n].res = "429"]
                /\ UNCHANGED request_count_map
           ELSE /\ request_count_map' = [request_count_map EXCEPT ![g] = count + 1]
                /\ requests' = [requests EXCEPT ![n].pc = "lookup"]
    /\ UNCHANGED <<ck_input, ck_rx, ck_state, ck_sink, ck_fail, sdpVars, tx_map, peer_rx,
                   sessVars>>

\* protect_ddos, under the lock of request_count_map: the count of the group
\* (0 when it has no entry) is compared with the limit, then incremented (it is
\* below a u32 limit, so the u32 addition cannot overflow); the Err leaves the
\* handler through `?`
ProtectDdos(n) ==
    /\ requests[n].pc = "ddos"
    /\ LET g == requests[n].ip_group
           count == request_count_map[g]
       IN  IF count >= MAX_REQUEST
           THEN /\ requests' = [requests EXCEPT ![n].pc = "done", ![n].res = "429"]
                /\ UNCHANGED request_count_map
           ELSE /\ request_count_map' = [request_count_map EXCEPT ![g] = count + 1]
                /\ requests' = [requests EXCEPT ![n].pc = "lookup"]
    /\ UNCHANGED <<ck_input, ck_rx, ck_state, ck_sink, ck_fail, sdpVars, tx_map, peer_rx,
                   sessVars>>

\* Mutant: the peer id is looked up in the maps of all IP groups.
TxLookupAnyGroup(ip_group, peer_id) ==
    IF \E p \in tx_map : p[2] = peer_id
    THEN <<CHOOSE p \in tx_map : p[2] = peer_id /\ (p[1] # ip_group \/ \A q \in tx_map : q[2] = peer_id => q = p)>>
    ELSE <<>>

\* tx_map.get(&ip_group) and then tx_local_map.get(&peer_id): Some(tx.clone()),
\* or None
TxLookup(ip_group, peer_id) ==
    IF <<ip_group, peer_id>> \in tx_map THEN <<<<ip_group, peer_id>>>> ELSE <<>>

\* send_to_peer_with_lock, the block under the lock of tx_map
SendToPeerLock(n) ==
    /\ requests[n].pc = "lookup"
    /\ requests' = [requests EXCEPT ![n].pc = "send",
                                    ![n].tx = TxLookup(requests[n].ip_group, requests[n].target)]
    /\ UNCHANGED <<ck_input, ck_rx, ck_state, ck_sink, ck_fail, sdpVars, request_count_map,
                   tx_map, peer_rx, sessVars>>

\* send_to_peer_with_lock after the lock: let _ = tx.send(message.clone()).await
\* when a tx was found (the send is an Err, which is ignored, when the peer has
\* dropped its receiver), then the handler's Ok(())
SendToPeerSend(n) ==
    /\ requests[n].pc = "send"
    /\ requests' = [requests EXCEPT ![n].pc = "done", ![n].res = "Ok"]
    /\ IF requests[n].tx = <<>>
       THEN UNCHANGED peer_rx
       ELSE \E sent \in BOOLEAN :
               peer_rx' = IF sent
                          THEN [peer_rx EXCEPT ![requests[n].tx[1]] =
                                   Append(@, [ws_type |-> requests[n].ws_type, req |-> n])]
                          ELSE peer_rx
    /\ UNCHANGED <<ck_input, ck_rx, ck_state, ck_sink, ck_fail, sdpVars, request_count_map,
                   tx_map, sessVars>>

InitServer ==
    /\ files = <<>>
    /\ ApiIdle
    /\ LinkInit
    /\ s_main = "offer"
    /\ SenderIdle
    /\ ReceiverInit
    /\ ck_input = <<>>
    /\ ck_rx = <<>>
    /\ ck_state = ChunkerStart
    /\ ck_sink = <<>>
    /\ ck_fail = 0
    /\ SdpIdle
    /\ request_count_map = [g \in IpGroups |-> 0]
    /\ tx_map \in SUBSET Peers
    /\ peer_rx = [p \in Peers |-> <<>>]
    /\ requests = [n \in 1..MaxRequests |-> NoRequest]

NextServer ==
    \/ \E n \in 1..MaxRequests : RestSendOffer(n)
    \/ \E n \in 1..MaxRequests : RestSendAnswer(n)
    \/ \E n \in 1..MaxRequests : ProtectDdos(n)
    \/ \E n \in 1..MaxRequests : SendToPeerLock(n)
    \/ \E n \in 1..MaxRequests : SendToPeerSend(n)

SpecServer == InitServer /\ [][NextServer]_vars

(***************************************************************************)
(* Claims about the signaling server                                       *)
(***************************************************************************)
\* The requests of IP group g that protect_ddos let through
Admitted(g) ==
    {n \in 1..MaxRequests :
        /\ requests[n].ip_group = g
        /\ (requests[n].pc \in {"lookup", "send"} \/ requests[n].res = "Ok")}

\* The peers that were sent the message of request n
Relayed(n) == {p \in Peers : \E i \in DOMAIN peer_rx[p] : peer_rx[p][i].req = n}

\* Request n is about to run protect_ddos with its group's counter at the limit
AtLimit(n) ==
    /\ requests[n].pc = "ddos"
    /\ request_count_map[requests[n].ip_group] >= MAX_REQUEST

\* C32: the request counter of every IP group is at most MAX_REQUEST and is the
\* number of the group's requests that were let through, whatever the
\* interleaving of the send_offer and send_answer requests; a request that
\* finds the counter at the limit ends with 429 Too Many Requests, with the
\* counter as it was and nothing relayed, then or later.
C32_RequestLimit ==
    /\ [](/\ \A g \in IpGroups :
                /\ request_count_map[g] <= MAX_REQUEST
                /\ request_count_map[g] = Cardinality(Admitted(g))
          /\ \A n \in 1..MaxRequests : requests[n].res = "429" => Relayed(n) = {})
    /\ [][\A n \in 1..MaxRequests :
             (AtLimit(n) /\ requests'[n] # requests[n]) =>
                /\ requests'[n].pc = "done"
                /\ requests'[n].res = "429"
                /\ UNCHANGED <<request_count_map, peer_rx>>]_vars

\* A request was rejected at the limit after the requests of its group that
\* were let through had their message relayed
C32_Witness ==
    \E n \in 1..MaxRequests :
       /\ requests[n].res = "429"
       /\ request_count_map[requests[n].ip_group] = MAX_REQUEST
       /\ \A m \in Admitted(requests[n].ip_group) : Relayed(m) # {}

\* C33: a message in a peer's channel comes from a request whose target is the
\* peer's id and whose IP group is the one the peer is registered under; a
\* request let through whose target is not registered under its IP group has
\* its message sent to no peer, returns Ok and is counted in its group's counter.
C33_OnlyTarget ==
    /\ \A p \in Peers : \A i \in DOMAIN peer_rx[p] :
          LET rq == requests[peer_rx[p][i].req]
          IN  /\ p \in tx_map
              /\ p = <<rq.ip_group, rq.target>>
              /\ peer_rx[p][i].ws_type = rq.ws_type
    /\ \A n \in 1..MaxRequests :
          (/\ requests[n].pc \in {"lookup", "send", "done"}
           /\ requests[n].res # "429"
           /\ <<requests[n].ip_group, requests[n].target>> \notin tx_map) =>
             /\ Relayed(n) = {}
             /\ requests[n].pc = "done" => requests[n].res = "Ok"
             /\ request_count_map[requests[n].ip_group] >= 1
             /\ request_count_map[requests[n].ip_group] = Cardinality(Admitted(requests[n].ip_group))

\* A request returned Ok whose target is registered under the other IP group
\* only, and a request was relayed to its target whose id is registered under
\* both IP groups
C33_Witness ==
    \E n, m \in 1..MaxRequests :
       /\ requests[n].res = "Ok"
       /\ <<requests[n].ip_group, requests[n].target>> \notin tx_map
       /\ \E p \in tx_map : p[2] = requests[n].target
       /\ Relayed(n) = {}
       /\ Relayed(m) = {<<requests[m].ip_group, requests[m].target>>}
       /\ \E p \in tx_map : p[2] = requests[m].target /\ p[1] # requests[m].ip_group
====
